---- MODULE Spec2Model ----
(***************************************************************************)
(* Resilient-invocation layer of the AI job assistant backend:             *)
(*   retryWithBackoff  (src/src/utils/retryWithBackoff.js)                 *)
(*   AICache           (src/src/utils/aiCache.js)                          *)
(*   APIMonitor        (src/src/utils/sessionCleanup.js, lines 39-245)     *)
(*   AIService         (src/src/modules/job-match/ai.service.js)           *)
(* Times are in milliseconds.  JavaScript runs one callback at a time, so  *)
(* an action is the code between two suspension points (await).            *)
(***************************************************************************)
EXTENDS Integers, Sequences, FiniteSets, TLC

VARIABLES now, cache, stats, inv, obs, runs, probe

vars == <<now, cache, stats, inv, obs, runs, probe>>

(***************************************************************************)
(* Bounds of the model.                                                    *)
(***************************************************************************)
\* largest maxRetries option a direct caller of retryWithBackoff passes
MaxRetriesBound == 2
\* Math.random() is drawn from {0, 1/2, (RandomDen-1)/RandomDen}
RandomDen == 1000
\* calls of retryWithBackoff / analyzeJobMatch started in one behaviour
MaxRuns == 2
\* the clock takes the values 0 .. ClockSlack and DefaultTtl .. DefaultTtl + ClockSlack
ClockSlack == 2
\* largest explicit ttl passed to set
MaxTtl == 1

(***************************************************************************)
(* JavaScript values.                                                      *)
(***************************************************************************)
\* an absent numeric property (error.status, error.response?.status)
NoStatus == 0
\* an absent string property (error.code)
NoCode == ""
\* a numeric option left out of the options object
Omitted == -1
\* the value of `lastError` before any attempt has failed, and of a `null` result
Undefined == [undefined |-> TRUE]
Null == [null |-> TRUE]

\* numbers, strings and arrays of the objects handed to generateKey
Num(n) == [num |-> n]
Str(s) == [str |-> s]
Arr(s) == [arr |-> s]

\* the values that `||` skips
Falsy(v) == v \in {Undefined, Null, Num(0), Str("")}

\* v || d
OrElse(v, d) == IF Falsy(v) THEN d ELSE v

\* obj?.name
Prop(obj, name) ==
    IF obj \in {Undefined, Null} THEN Undefined
    ELSE IF name \in DOMAIN obj THEN obj[name]
    ELSE Undefined

Min(a, b) == IF a <= b THEN a ELSE b
Max(a, b) == IF a >= b THEN a ELSE b

\* Array.prototype.slice(0, n)
Take(seq, n) == IF Len(seq) > n THEN SubSeq(seq, 1, n) ELSE seq

RECURSIVE Pow2(_)
Pow2(n) == IF n = 0 THEN 1 ELSE 2 * Pow2(n - 1)

(***************************************************************************)
(* Errors an operation can raise.  msg is the set of the substrings        *)
(* "429", "quota", "rate limit" that error.message contains; api says      *)
(* whether the error is an instance of OpenAI.APIError.                    *)
(***************************************************************************)
Err(status, rstatus, code, msg, api) ==
    [status |-> status, rstatus |-> rstatus, code |-> code, msg |-> msg, api |-> api]

Errors ==
    { Err(429, NoStatus, NoCode, {}, TRUE),
      Err(NoStatus, 429, NoCode, {}, FALSE),
      Err(NoStatus, NoStatus, NoCode, {"quota"}, FALSE),
      Err(NoStatus, NoStatus, NoCode, {"rate limit"}, FALSE),
      Err(NoStatus, NoStatus, NoCode, {"429"}, FALSE),
      Err(NoStatus, NoStatus, "ECONNRESET", {}, FALSE),
      Err(NoStatus, NoStatus, "ETIMEDOUT", {}, FALSE),
      Err(400, NoStatus, NoCode, {}, TRUE),
      Err(400, NoStatus, NoCode, {"quota"}, TRUE),
      Err(401, NoStatus, NoCode, {}, TRUE),
      Err(NoStatus, NoStatus, "ECONNREFUSED", {}, FALSE),
      Err(NoStatus, NoStatus, "rate_limit_exceeded", {}, TRUE),
      Err(NoStatus, NoStatus, "insufficient_quota", {}, TRUE),
      Err(429, NoStatus, NoCode, {}, FALSE),
      Err(NoStatus, NoStatus, NoCode, {}, FALSE) }

\* errors raised by the operation of a direct caller of retryWithBackoff
OperationErrors ==
    { Err(429, NoStatus, NoCode, {}, TRUE),
      Err(NoStatus, NoStatus, NoCode, {"quota"}, FALSE),
      Err(NoStatus, NoStatus, "ETIMEDOUT", {}, FALSE),
      Err(400, NoStatus, NoCode, {}, TRUE),
      Err(NoStatus, NoStatus, NoCode, {}, FALSE) }

RaisedBy(caller) == IF caller = "analyze" THEN Errors ELSE OperationErrors

\* String.prototype.includes on error.message
Includes(e, needle) == needle \in e.msg

(***************************************************************************)
(* retryWithBackoff: options and the retry predicate.                      *)
(***************************************************************************)
DefaultMaxRetries == 3
DefaultBaseDelay == 1000
DefaultMaxDelay == 10000

\* the default value of options.shouldRetry
DefaultShouldRetry(e) ==
    \/ e.rstatus = 429
    \/ e.status = 429
    \/ e.code = "ECONNRESET"
    \/ e.code = "ETIMEDOUT"
    \/ Includes(e, "429")
    \/ Includes(e, "quota")
    \/ Includes(e, "rate limit")

\* (mutant) quota messages are not retried
OrchestratorShouldRetryNoQuota(e) ==
    \/ e.rstatus = 429
    \/ e.status = 429
    \/ e.code = "ECONNRESET"
    \/ e.code = "ETIMEDOUT"
    \/ Includes(e, "429")
    \/ Includes(e, "rate limit")

\* the value returned by the shouldRetry that analyzeJobMatch passes
OrchestratorShouldRetry(e) ==
    \/ e.rstatus = 429
    \/ e.status = 429
    \/ e.code = "ECONNRESET"
    \/ e.code = "ETIMEDOUT"
    \/ Includes(e, "429")
    \/ Includes(e, "quota")
    \/ Includes(e, "rate limit")

\* options objects a direct caller passes: each property given or left out
DirectOptions ==
    { [maxRetries |-> m, baseDelay |-> d[1], maxDelay |-> d[2], shouldRetry |-> s] :
        m \in {Omitted} \cup (0 .. MaxRetriesBound),
        d \in { <<Omitted, Omitted>>, <<2000, 3000>> },
        s \in {"omitted", "never", "always"} }

\* the options object analyzeJobMatch passes
OrchestratorOptions ==
    [maxRetries |-> 3, baseDelay |-> 2000, maxDelay |-> 30000, shouldRetry |-> "orchestrator"]

\* destructuring of options with its defaults
ResolveOptions(o) ==
    [maxRetries  |-> IF o.maxRetries = Omitted THEN DefaultMaxRetries ELSE o.maxRetries,
     baseDelay   |-> IF o.baseDelay = Omitted THEN DefaultBaseDelay ELSE o.baseDelay,
     maxDelay    |-> IF o.maxDelay = Omitted THEN DefaultMaxDelay ELSE o.maxDelay,
     shouldRetry |-> IF o.shouldRetry = "omitted" THEN "default" ELSE o.shouldRetry]

\* (mutant) every error is retried
ShouldRetryAlways(opts, e) == TRUE

\* the boolean a call of options.shouldRetry(error) returns
ShouldRetry(opts, e) ==
    CASE opts.shouldRetry = "default"      -> DefaultShouldRetry(e)
      [] opts.shouldRetry = "orchestrator" -> OrchestratorShouldRetry(e)
      [] opts.shouldRetry = "always"       -> TRUE
      [] opts.shouldRetry = "never"        -> FALSE

\* the loop condition `attempt < maxRetries`
LoopRuns(opts, attempt) == attempt < opts.maxRetries

\* (mutant) the last attempt is not recognised
GivesUpOnPredicateOnly(opts, attempt, e) == ~ShouldRetry(opts, e)

\* `!shouldRetry(error) || attempt === maxRetries - 1`: the error is rethrown
GivesUp(opts, attempt, e) ==
    \/ ~ShouldRetry(opts, e)
    \/ attempt = opts.maxRetries - 1

\* (mutant) the delay is not capped by maxDelay
ExponentialDelayUncapped(opts, attempt) == opts.baseDelay * Pow2(attempt)

\* Math.min(baseDelay * Math.pow(2, attempt), maxDelay)
ExponentialDelay(opts, attempt) ==
    Min(opts.baseDelay * Pow2(attempt), opts.maxDelay)

\* values Math.random() takes in the model, as numerators over RandomDen
RandomValues == {0, RandomDen \div 2, RandomDen - 1}

\* one millisecond in the unit delays are kept in: 1 / (10 * RandomDen) ms
DelayUnit == 10 * RandomDen

\* exponentialDelay + Math.random() * 0.3 * exponentialDelay, in 1/DelayUnit ms
JitteredDelay(opts, attempt, rnd) ==
    ExponentialDelay(opts, attempt) * DelayUnit + rnd * 3 * ExponentialDelay(opts, attempt)

(***************************************************************************)
(* AICache.                                                                *)
(***************************************************************************)
DefaultTtl == 3600000

\* the user document and the job postings handed to analyzeJobMatch in the
\* behaviours of analyzeJobMatch; the user has the shape of the user schema
Profiles ==
    { [professionalInfo |-> [currentTitle |-> Str("dev"), experienceYears |-> Num(3)],
       otherInfo        |-> [skills |-> Arr(<<Str("js")>>)],
       education        |-> [degree |-> Str("bsc")]] }

\* the job details analyzeFromUrl builds for a job URL: the scraper is not
\* called and the URL is the only property
UrlJob(jobUrl) == [jobUrl |-> Str(jobUrl)]

JobUrls == {"https://jobs/1", "https://jobs/2"}

\* the job details of a manual entry as the controller builds them, which are
\* also the properties reanalyze copies from the stored job match
ManualJobs ==
    { [jobTitle |-> Str("backend"), company |-> Str("acme"), location |-> Str("remote"),
       jobDescription |-> Str("api")] }

Jobs == ManualJobs \cup { UrlJob(url) : url \in JobUrls }

\* JSON.stringify: the text is represented by the value it denotes; an
\* undefined array element is written as null, an undefined property is left out
RECURSIVE JSONStringify(_)
JSONStringify(v) ==
    IF v = Undefined THEN Null
    ELSE IF v = Null \/ DOMAIN v = {"num"} \/ DOMAIN v = {"str"} THEN v
    ELSE IF DOMAIN v = {"arr"}
         THEN Arr([i \in DOMAIN v.arr |-> JSONStringify(v.arr[i])])
    ELSE [f \in {g \in DOMAIN v : v[g] # Undefined} |-> JSONStringify(v[f])]

\* crypto.createHash('sha256').update(text).digest('hex'); the digest is taken
\* to be collision free and is represented by the text it was computed from
Sha256Hex(text) == text

generateKey(userProfile, jobDetails) ==
    LET userKey ==
            [skills       |-> OrElse(Prop(Prop(userProfile, "otherInfo"), "skills"), Arr(<<>>)),
             experience   |-> OrElse(Prop(Prop(userProfile, "professionalInfo"),
                                          "experienceYears"), Num(0)),
             currentTitle |-> OrElse(Prop(Prop(userProfile, "professionalInfo"),
                                          "currentTitle"), Str("")),
             education    |-> OrElse(Prop(Prop(userProfile, "otherInfo"), "education"),
                                     Arr(<<>>))]
        jobKey ==
            [title        |-> OrElse(Prop(jobDetails, "jobTitle"), Str("")),
             description  |-> OrElse(Prop(jobDetails, "jobDescription"), Str("")),
             requirements |-> OrElse(Prop(jobDetails, "requirements"), Str("")),
             company      |-> OrElse(Prop(jobDetails, "company"), Str(""))]
        combined == JSONStringify([user |-> userKey, job |-> jobKey])
    IN  Sha256Hex(combined)

Keys == { generateKey(u, j) : u \in Profiles, j \in Jobs }

\* Map.get of a key the Map does not hold
NoEntry == [absent |-> TRUE]

Entry(data, expiresAt) == [data |-> data, expiresAt |-> expiresAt]

\* (mutant) an entry written with the default ttl is served only at the
\* instant it was written
ExpiredOnReadAtOnce(entry, t) == t > entry.expiresAt - DefaultTtl

\* `Date.now() > cached.expiresAt` in get
ExpiredOnRead(entry, t) == t > entry.expiresAt

\* (mutant) the sweep finds no entry expired
ExpiredOnSweepNever(entry, t) == FALSE

\* `now > value.expiresAt` in clearExpired
ExpiredOnSweep(entry, t) == t > entry.expiresAt

\* (mutant) the expiry test of get is inverted
GetValueInverted(c, key, t) ==
    IF c[key] = NoEntry THEN Null
    ELSE IF t < c[key].expiresAt THEN Null
    ELSE c[key].data

\* the value get(key) returns at time t
GetValue(c, key, t) ==
    IF c[key] = NoEntry THEN Null
    ELSE IF ExpiredOnRead(c[key], t) THEN Null
    ELSE c[key].data

\* (mutant) get does not delete the expired entry
GetStoreNoEviction(c, key, t) == c

\* the Map after get(key) at time t
GetStore(c, key, t) ==
    IF c[key] # NoEntry /\ ExpiredOnRead(c[key], t)
    THEN [c EXCEPT ![key] = NoEntry]
    ELSE c

\* the ttl parameter of set with its default, this.ttl
SetTtl(ttl) == IF ttl = Omitted THEN DefaultTtl ELSE ttl

\* (mutant) set keeps the expiry of an entry it overwrites
SetStoreKeepsExpiry(c, key, data, ttl, t) ==
    [c EXCEPT ![key] = Entry(data, IF c[key] = NoEntry THEN t + SetTtl(ttl)
                                                       ELSE c[key].expiresAt)]

\* the Map after set(key, data, ttl) at time t
SetStore(c, key, data, ttl, t) ==
    [c EXCEPT ![key] = Entry(data, t + SetTtl(ttl))]

\* the Map after clearExpired() at time t
ClearExpiredStore(c, t) ==
    [k \in Keys |-> IF c[k] # NoEntry /\ ExpiredOnSweep(c[k], t) THEN NoEntry ELSE c[k]]

\* the Map after clear()
ClearStore(c) == [k \in Keys |-> NoEntry]

(***************************************************************************)
(* APIMonitor.                                                             *)
(***************************************************************************)
maxErrors == 50
\* lastError / lastSuccess before any is recorded (null)
NoDate == -1

InitStats ==
    [totalCalls |-> 0, successfulCalls |-> 0, failedCalls |-> 0, cacheHits |-> 0,
     quotaErrors |-> 0, retries |-> 0, lastError |-> NoDate, lastSuccess |-> NoDate,
     errors |-> <<>>]

\* (mutant) a call is not recorded while another call is outstanding
recordCallSingleFlight(st) ==
    IF st.totalCalls > st.successfulCalls + st.failedCalls
    THEN st
    ELSE [st EXCEPT !.totalCalls = @ + 1]

recordCall(st) == [st EXCEPT !.totalCalls = @ + 1]

\* (mutant) a success clears the retries counter
recordSuccessClearsRetries(st, t) ==
    [st EXCEPT !.successfulCalls = @ + 1, !.lastSuccess = t, !.retries = 0]

recordSuccess(st, t) == [st EXCEPT !.successfulCalls = @ + 1, !.lastSuccess = t]

\* the test that decides quotaErrors++
IsQuotaError(e) ==
    \/ Includes(e, "quota")
    \/ Includes(e, "429")
    \/ e.status = 429

ErrorEntry(e, t) == [timestamp |-> t, message |-> e.msg, status |-> e.status, code |-> e.code]

\* (mutant) the entry is put at the end of the log
PushErrorAppends(errors, entry) ==
    LET pushed == errors \o <<entry>>
    IN  IF Len(pushed) > maxErrors THEN SubSeq(pushed, 1, maxErrors) ELSE pushed

\* (mutant) when the log is full the new entry is the one dropped
PushErrorKeepsOldest(errors, entry) ==
    LET pushed == <<entry>> \o errors
    IN  IF Len(pushed) > maxErrors THEN SubSeq(pushed, 2, maxErrors + 1) ELSE pushed

\* errors.unshift(errorEntry), then the slice to maxErrors
PushError(errors, entry) ==
    LET pushed == <<entry>> \o errors
    IN  IF Len(pushed) > maxErrors THEN SubSeq(pushed, 1, maxErrors) ELSE pushed

recordFailure(st, e, t) ==
    [st EXCEPT !.failedCalls = @ + 1,
               !.lastError = t,
               !.quotaErrors = IF IsQuotaError(e) THEN @ + 1 ELSE @,
               !.errors = PushError(@, ErrorEntry(e, t))]

\* (mutant) a cache hit is counted as a call as well
recordCacheHitAsCall(st) == [st EXCEPT !.cacheHits = @ + 1, !.totalCalls = @ + 1]

recordCacheHit(st) == [st EXCEPT !.cacheHits = @ + 1]

recordRetry(st) == [st EXCEPT !.retries = @ + 1]

\* (n / d * 100).toFixed(2) + '%', as the number of hundredths of a percent
ToFixed2(n, d) == (2 * 10000 * n + d) \div (2 * d)

\* (mutant) a rate is computed as soon as its own counter is positive
PercentOfCounter(n, d) ==
    IF d > 0 \/ n > 0 THEN [fixed2 |-> ToFixed2(n, Max(d, 1))] ELSE [text |-> "0%"]

\* a rate of getStats: '0%' when no call was recorded
Percent(n, d) == IF d > 0 THEN [fixed2 |-> ToFixed2(n, d)] ELSE [text |-> "0%"]

getStats(st) ==
    [totalCalls      |-> st.totalCalls,
     successfulCalls |-> st.successfulCalls,
     failedCalls     |-> st.failedCalls,
     cacheHits       |-> st.cacheHits,
     quotaErrors     |-> st.quotaErrors,
     retries         |-> st.retries,
     lastError       |-> st.lastError,
     lastSuccess     |-> st.lastSuccess,
     errors          |-> st.errors,
     successRate     |-> Percent(st.successfulCalls, st.totalCalls),
     cacheHitRate    |-> Percent(st.cacheHits, st.totalCalls),
     errorRate       |-> Percent(st.failedCalls, st.totalCalls)]

\* errors.slice(0, limit), limit = 10 when left out
getRecentErrors(st, limit) == Take(st.errors, IF limit = Omitted THEN 10 ELSE limit)

\* quotaErrors / failedCalls > 0.3
isQuotaErrorFrequent(st) ==
    st.failedCalls > 0 /\ 10 * st.quotaErrors > 3 * st.failedCalls

\* successRate of getHealth as the fraction num / den: 1 when no call was recorded
HealthRate(st) ==
    IF st.totalCalls > 0 THEN [num |-> st.successfulCalls, den |-> st.totalCalls]
    ELSE [num |-> 1, den |-> 1]

\* status and recommendations after the test of the success rate
HealthByRate(st) ==
    LET r == HealthRate(st)
    IN  IF 2 * r.num < r.den
        THEN [status |-> "critical",
              recommendations |-> <<"More than 50% of API calls are failing",
                                    "Check OpenAI API status and billing">>]
        ELSE IF 5 * r.num < 4 * r.den
        THEN [status |-> "warning",
              recommendations |-> <<"Success rate is below 80%",
                                    "Monitor API usage and errors">>]
        ELSE [status |-> "healthy", recommendations |-> <<>>]

\* (mutant) frequent quota errors change the status and recommend nothing
HealthByQuotaSilent(st) ==
    LET h == HealthByRate(st)
    IN  IF isQuotaErrorFrequent(st)
        THEN [status |-> IF h.status = "critical" THEN "critical" ELSE "warning",
              recommendations |-> h.recommendations]
        ELSE h

\* ... after the test of the quota errors
HealthByQuota(st) ==
    LET h == HealthByRate(st)
    IN  IF isQuotaErrorFrequent(st)
        THEN [status |-> IF h.status = "critical" THEN "critical" ELSE "warning",
              recommendations |-> h.recommendations \o
                  <<"Frequent quota errors detected",
                    "Consider upgrading OpenAI plan or reducing usage">>]
        ELSE h

\* the test of the retries adds recommendations and leaves the status alone
getHealth(st) ==
    LET h == HealthByQuota(st)
        r == HealthRate(st)
    IN  [status          |-> h.status,
         successRate     |-> [fixed2 |-> ToFixed2(r.num, r.den)],
         recommendations |-> h.recommendations \o
             (IF st.retries > st.successfulCalls * 2
              THEN <<"High retry rate detected",
                     "Check network connectivity and API response times">>
              ELSE <<>>),
         lastError       |-> st.lastError,
         lastSuccess     |-> st.lastSuccess]

\* the statistics after reset()
reset == InitStats

(***************************************************************************)
(* AIService: response parsing and error classification.                   *)
(***************************************************************************)
\* completions of the provider: percentage is the integer after the
\* MATCHING_PERCENTAGE label (Omitted when the label is missing), strengths and
\* areas the list items of the two sections, analysisLen the length of the text
\* after DETAILED_ANALYSIS
Completions ==
    { [percentage |-> 82, strengths |-> <<"node">>, areas |-> <<"sql">>, analysisLen |-> 120],
      [percentage |-> Omitted, strengths |-> <<>>, areas |-> <<>>, analysisLen |-> 2400] }

parseAIResponse(response) ==
    [matchingPercentage |->
         Min(100, Max(0, IF response.percentage = Omitted THEN 50 ELSE response.percentage)),
     strengths          |-> Take(response.strengths, 5),
     areasToImprove     |-> Take(response.areas, 5),
     detailedAnalysisLen |-> Min(response.analysisLen, 2000)]

Results == { parseAIResponse(c) : c \in Completions }

\* the Error the catch block of analyzeJobMatch throws for the caught error
ClassifyError(e) ==
    IF e.api
    THEN IF e.status = 429 \/ e.code = "rate_limit_exceeded"
              THEN [text |-> "OpenAI API error: 429 You exceeded your current quota", detail |-> {}]
         ELSE IF e.code = "insufficient_quota"
              THEN [text |-> "OpenAI API quota exceeded", detail |-> {}]
         ELSE IF e.status = 401
              THEN [text |-> "OpenAI API authentication failed", detail |-> {}]
         ELSE IF e.status = 400
              THEN [text |-> "OpenAI API error: Invalid request", detail |-> e.msg]
         ELSE [text |-> "OpenAI API error", detail |-> e.msg]
    ELSE IF e.code = "ECONNREFUSED" \/ e.code = "ENOTFOUND"
         THEN [text |-> "Unable to connect to OpenAI API", detail |-> {}]
    ELSE [text |-> "AI analysis failed", detail |-> e.msg]

(***************************************************************************)
(* One call of retryWithBackoff, from a direct caller or from              *)
(* analyzeJobMatch, as the record of the call's local state.               *)
(*   pc       idle | inflight (await fn()) | waiting (await wait(delay))   *)
(*            | settled (retryWithBackoff returned or threw) | done        *)
(*   calls    invocations of fn so far;  waits  calls of wait so far       *)
(*   delay    argument of the wait in progress, in 1/DelayUnit ms          *)
(*   doneAt   the time at which the caller got its result or error         *)
(***************************************************************************)
Procs == {"a", "b"}

NoKey == <<>>

Nothing == [kind |-> "none"]
Returned(v) == [kind |-> "returned", value |-> v]
Threw(x) == [kind |-> "threw", error |-> x]

NewRun(caller, opts, key) ==
    [pc |-> "idle", caller |-> caller, opts |-> opts, key |-> key,
     attempt |-> 0, lastError |-> Undefined, calls |-> 0, waits |-> 0, delay |-> 0,
     settled |-> Nothing, outcome |-> Nothing, doneAt |-> NoDate]

IdleInv == NewRun("none", ResolveOptions(OrchestratorOptions), NoKey)

\* head of the for loop: the next attempt invokes fn, or the loop is left
\* and `throw lastError` runs
ForLoop(r) ==
    IF LoopRuns(r.opts, r.attempt)
    THEN [r EXCEPT !.pc = "inflight", !.calls = @ + 1]
    ELSE [r EXCEPT !.pc = "settled", !.settled = Threw(r.lastError)]

\* `return await fn()` when fn resolves with v
OnResolve(r, v) == [r EXCEPT !.pc = "settled", !.settled = Returned(v)]

\* the catch block when fn rejects with e; rnd is the value of Math.random()
OnReject(r, e, rnd) ==
    IF GivesUp(r.opts, r.attempt, e)
    THEN [r EXCEPT !.lastError = e, !.pc = "settled", !.settled = Threw(e)]
    ELSE [r EXCEPT !.lastError = e, !.pc = "waiting", !.waits = @ + 1,
                   !.delay = JitteredDelay(r.opts, r.attempt, rnd)]

\* (mutant) the loop counter is not advanced
AfterWaitNoIncrement(r) == ForLoop([r EXCEPT !.delay = 0])

\* (mutant) the loop starts over after a wait
AfterWaitStartsOver(r) == ForLoop([r EXCEPT !.attempt = 0, !.delay = 0])

\* the wait is over: the catch block (and its `delay`) is left, attempt++ and
\* the loop head
AfterWait(r) == ForLoop([r EXCEPT !.attempt = @ + 1, !.delay = 0])

\* Math.random() is called only when the call goes on to wait
RandomDraws(r, e) == IF GivesUp(r.opts, r.attempt, e) THEN {0} ELSE RandomValues

\* monitor after options.shouldRetry(error) ran: the predicate of
\* analyzeJobMatch calls apiMonitor.recordRetry() first
StatsAfterPredicate(opts, st) ==
    IF opts.shouldRetry = "orchestrator" THEN recordRetry(st) ELSE st

\* the rest of analyzeJobMatch once retryWithBackoff has settled
AnalyzeInv(r) ==
    IF r.settled.kind = "returned"
    THEN [r EXCEPT !.pc = "done", !.outcome = Returned(parseAIResponse(r.settled.value))]
    ELSE [r EXCEPT !.pc = "done", !.outcome = Threw(ClassifyError(r.settled.error))]

\* (mutant) the parsed result is not written to the cache
AnalyzeCacheNoWrite(r, c, t) == c

\* (mutant) a failed invocation caches the fallback result
AnalyzeCacheFallbackOnError(r, c, t) ==
    IF r.settled.kind = "returned"
    THEN SetStore(c, r.key, parseAIResponse(r.settled.value), Omitted, t)
    ELSE SetStore(c, r.key,
                  parseAIResponse([percentage |-> Omitted, strengths |-> <<>>,
                                   areas |-> <<>>, analysisLen |-> 0]),
                  Omitted, t)

\* (mutant) an entry that is already there is not overwritten
AnalyzeCacheFirstWriterWins(r, c, t) ==
    IF r.settled.kind = "returned" /\ c[r.key] = NoEntry
    THEN SetStore(c, r.key, parseAIResponse(r.settled.value), Omitted, t)
    ELSE c

\* the cache after aiCache.set(cacheKey, parsedAnalysis), which runs only
\* when retryWithBackoff returned
AnalyzeCache(r, c, t) ==
    IF r.settled.kind = "returned"
    THEN SetStore(c, r.key, parseAIResponse(r.settled.value), Omitted, t)
    ELSE c

AnalyzeStats(r, st, t) ==
    IF r.settled.kind = "returned"
    THEN recordSuccess(st, t)
    ELSE recordFailure(st, r.settled.error, t)

\* the caller's continuation after a step r of its retryWithBackoff call
Continue(p, r, st, c) ==
    IF r.pc # "settled"
    THEN /\ inv' = [inv EXCEPT ![p] = r]
         /\ stats' = st
         /\ cache' = c
    ELSE IF r.caller = "direct"
    THEN /\ inv' = [inv EXCEPT ![p] = [r EXCEPT !.pc = "done", !.outcome = r.settled,
                                                 !.doneAt = now]]
         /\ stats' = st
         /\ cache' = c
    ELSE /\ inv' = [inv EXCEPT ![p] = [AnalyzeInv(r) EXCEPT !.doneAt = now]]
         /\ stats' = AnalyzeStats(r, st, now)
         /\ cache' = AnalyzeCache(r, c, now)

\* obs is the last event at the cache seen from outside analyzeJobMatch: a
\* call of its interface (its arguments, the value it returned and pre, the
\* Map before the call) or a tick of the clock, so that a call recorded in
\* obs was made at time now.  lastSet[k] is the set of key k made at the
\* current instant, if any.
NoSet == [absent |-> TRUE]

\* probe is the last call, made from outside analyzeJobMatch, of an operation
\* that returns a value computed from its arguments or from the monitor
NoProbe == [op |-> "none"]

NoCall ==
    [op |-> "none", key |-> NoKey, data |-> Null, ttl |-> Omitted, ret |-> Null,
     pre |-> [k \in Keys |-> NoEntry], lastSet |-> [k \in Keys |-> NoSet]]

Call(op, key, data, ttl, ret) ==
    [obs EXCEPT !.op = op, !.key = key, !.data = data, !.ttl = ttl, !.ret = ret,
                !.pre = cache]

(***************************************************************************)
(* State after construction of the singletons.                             *)
(***************************************************************************)
Init ==
    /\ now = 0
    /\ cache = [k \in Keys |-> NoEntry]
    /\ stats = InitStats
    /\ inv = [p \in Procs |-> IdleInv]
    /\ obs = NoCall
    /\ runs = 0
    /\ probe = NoProbe

\* (mutant) the backoff wait blocks the process: no invocation starts while
\* one is waiting
CanStartUnlessWaiting(p) ==
    /\ inv[p].pc \in {"idle", "done"}
    /\ runs < MaxRuns
    /\ \A q \in Procs : inv[q].pc # "waiting"

CanStart(p) == inv[p].pc \in {"idle", "done"} /\ runs < MaxRuns

\* retryWithBackoff(fn, o) called directly
StartRetry(p, o) ==
    /\ CanStart(p)
    /\ runs' = runs + 1
    /\ Continue(p, ForLoop(NewRun("direct", ResolveOptions(o), NoKey)), stats, cache)
    /\ UNCHANGED <<now, obs, probe>>

\* analyzeJobMatch(userProfile, jobDetails) up to its first await
BeginAnalyze(p, userProfile, jobDetails) ==
    LET cacheKey == generateKey(userProfile, jobDetails)
        cachedResult == GetValue(cache, cacheKey, now)
        afterGet == GetStore(cache, cacheKey, now)
    IN  /\ runs' = runs + 1
        /\ \/ /\ cachedResult # Null
              /\ stats' = recordCacheHit(stats)
              /\ cache' = afterGet
              /\ inv' = [inv EXCEPT ![p] =
                            [NewRun("analyze", ResolveOptions(OrchestratorOptions), cacheKey)
                                EXCEPT !.pc = "done", !.outcome = Returned(cachedResult),
                                       !.doneAt = now]]
           \/ /\ cachedResult = Null
              /\ Continue(p,
                          ForLoop(NewRun("analyze", ResolveOptions(OrchestratorOptions), cacheKey)),
                          recordCall(stats), afterGet)
        /\ UNCHANGED <<now, obs, probe>>

\* a caller that awaits no invocation calls analyzeJobMatch
StartAnalyze(p, userProfile, jobDetails) ==
    /\ CanStart(p)
    /\ BeginAnalyze(p, userProfile, jobDetails)

\* the operation fn resolves with v
FnResolves(p, v) ==
    /\ inv[p].pc = "inflight"
    /\ Continue(p, OnResolve(inv[p], v), stats, cache)
    /\ UNCHANGED <<now, obs, runs, probe>>

\* the operation fn rejects with e
FnRejects(p, e) ==
    /\ inv[p].pc = "inflight"
    /\ e \in RaisedBy(inv[p].caller)
    /\ \E rnd \in RandomDraws(inv[p], e) :
          Continue(p, OnReject(inv[p], e, rnd), StatsAfterPredicate(inv[p].opts, stats), cache)
    /\ UNCHANGED <<now, obs, runs, probe>>

\* the timer of wait(delay) fires
WaitElapses(p) ==
    /\ inv[p].pc = "waiting"
    /\ Continue(p, AfterWait(inv[p]), stats, cache)
    /\ UNCHANGED <<now, obs, runs, probe>>

RetryProcs == {"a"}

NextRetry ==
    \E p \in RetryProcs :
        \/ \E o \in DirectOptions : StartRetry(p, o)
        \/ \E u \in Profiles, j \in Jobs : StartAnalyze(p, u, j)
        \/ \E v \in Completions : FnResolves(p, v)
        \/ \E e \in Errors : FnRejects(p, e)
        \/ WaitElapses(p)

SpecRetry == Init /\ [][NextRetry]_vars

(***************************************************************************)
(* Properties of retryWithBackoff (checked under SpecRetry).               *)
(***************************************************************************)
Started(r) == r.caller \in {"direct", "analyze"}

\* C1: one call of retryWithBackoff with maxRetries >= 1 invokes the operation
\* at most maxRetries times, and one analyzeJobMatch invocation invokes the
\* provider at most 3 times, whatever errors are raised.
C1_AtMostMaxAttempts ==
    \A p \in Procs :
        /\ Started(inv[p]) /\ inv[p].opts.maxRetries >= 1
              => inv[p].calls <= inv[p].opts.maxRetries
        /\ inv[p].caller = "analyze" => inv[p].calls <= 3

\* an analyzeJobMatch invocation that ended after three failed provider calls
C1_Witness ==
    \E p \in Procs :
        /\ inv[p].caller = "analyze"
        /\ inv[p].pc = "done"
        /\ inv[p].calls = 3
        /\ inv[p].outcome.kind = "threw"

\* the attempt of p that is in flight fails in this step
AttemptFails(p) ==
    /\ inv[p].pc = "inflight"
    /\ inv'[p].pc \in {"waiting", "done"}
    /\ inv'[p].settled.kind # "returned"

\* C2: when an attempt fails and the predicate returns false for the error, or
\* the attempt was the last allowed one, retryWithBackoff throws that very
\* error, does not wait and does not invoke the operation again.
C2_GiveUpRethrowsSameError ==
    [][ \A p \in Procs :
          ( /\ AttemptFails(p)
            /\ \/ ~ShouldRetry(inv[p].opts, inv'[p].lastError)
               \/ inv[p].attempt = inv[p].opts.maxRetries - 1 )
          => /\ inv'[p].pc = "done"
             /\ inv'[p].settled = Threw(inv'[p].lastError)
             /\ inv'[p].waits = inv[p].waits
             /\ inv'[p].calls = inv[p].calls
             /\ inv'[p].attempt = inv[p].attempt ]_vars

\* a retriable error on the third and last attempt was thrown unchanged
C2_Witness ==
    \E p \in Procs :
        /\ inv[p].caller = "direct"
        /\ inv[p].opts.shouldRetry = "always"
        /\ inv[p].opts.maxRetries = 3
        /\ inv[p].pc = "done"
        /\ inv[p].calls = 3
        /\ inv[p].waits = 2
        /\ inv[p].settled = Threw(inv[p].lastError)
        /\ inv[p].lastError \in Errors

\* C3 (as claimed): with maxRetries 0 or 1 the operation is invoked exactly
\* once, no wait takes place, and the call returns that attempt's result or
\* throws that attempt's error, whatever the predicate returns.
C3_ZeroOrOneMeansOneAttempt ==
    \A p \in Procs :
        ( /\ Started(inv[p])
          /\ inv[p].opts.maxRetries \in {0, 1}
          /\ inv[p].pc = "done" )
        => /\ inv[p].calls = 1
           /\ inv[p].waits = 0
           /\ \/ inv[p].settled.kind = "returned"
              \/ /\ inv[p].settled.kind = "threw"
                 /\ inv[p].settled.error \in Errors

\* C4: a retry after the failure of attempt k waits d + j with
\* d = min(baseDelay * 2^k, maxDelay) and 0 <= j < 0.3 * d; with the options of
\* analyzeJobMatch the two waits lie in [2000, 2600) and [4000, 5200).
C4_BackoffBounds ==
    \A p \in Procs :
        inv[p].pc = "waiting" =>
            LET o == inv[p].opts
                k == inv[p].attempt
                d == IF o.baseDelay * Pow2(k) <= o.maxDelay
                     THEN o.baseDelay * Pow2(k) ELSE o.maxDelay
            IN  /\ d * DelayUnit <= inv[p].delay
                /\ 10 * inv[p].delay < 13 * d * DelayUnit
                /\ (inv[p].caller = "analyze" /\ k = 0) =>
                       /\ 2000 * DelayUnit <= inv[p].delay
                       /\ inv[p].delay < 2600 * DelayUnit
                /\ (inv[p].caller = "analyze" /\ k = 1) =>
                       /\ 4000 * DelayUnit <= inv[p].delay
                       /\ inv[p].delay < 5200 * DelayUnit

\* the wait before the third provider call, with jitter, and a capped wait of
\* a direct caller are both reached; the witness is the former
C4_Witness ==
    \E p \in Procs :
        /\ inv[p].caller = "analyze"
        /\ inv[p].pc = "waiting"
        /\ inv[p].attempt = 1
        /\ inv[p].delay > 4000 * DelayUnit

\* the signals the retry predicate is said to look at
RetrySignal(e) ==
    \/ e.status = 429 \/ e.rstatus = 429
    \/ "429" \in e.msg \/ "rate limit" \in e.msg \/ "quota" \in e.msg
    \/ e.code \in {"ECONNRESET", "ETIMEDOUT"}

UsesOrchestratorPredicate(r) == Started(r) /\ r.opts.shouldRetry \in {"orchestrator", "default"}

\* C5: while attempts remain, the predicate of analyzeJobMatch (the default
\* one) lets an error be retried exactly when it carries a 429 status, a
\* message with "429", "rate limit" or "quota", or a connection-reset/timeout
\* code; a status-400 error without such a signal surfaces on the first attempt.
C5_RetryPredicate ==
    \A p \in Procs :
        UsesOrchestratorPredicate(inv[p]) =>
            /\ inv[p].pc = "waiting" => RetrySignal(inv[p].lastError)
            /\ ( /\ inv[p].pc = "done"
                 /\ inv[p].settled.kind = "threw"
                 /\ inv[p].attempt < inv[p].opts.maxRetries - 1 )
               => ~RetrySignal(inv[p].lastError)
            /\ ( /\ inv[p].caller = "analyze"
                 /\ inv[p].calls = 1
                 /\ inv[p].lastError \in Errors
                 /\ inv[p].lastError.status = 400
                 /\ ~RetrySignal(inv[p].lastError) )
               => /\ inv[p].pc = "done"
                  /\ inv[p].waits = 0
                  /\ inv[p].settled = Threw(inv[p].lastError)

\* a quota message is being retried by analyzeJobMatch
C5_Witness ==
    \E p \in Procs :
        /\ inv[p].caller = "analyze"
        /\ inv[p].pc = "waiting"
        /\ "quota" \in inv[p].lastError.msg
        /\ inv[p].lastError.status = NoStatus

\* the class of the Error that analyzeJobMatch throws, by its message
ClassOf(thrown) ==
    CASE thrown.text = "OpenAI API error: 429 You exceeded your current quota" -> "QuotaExceeded"
      [] thrown.text = "OpenAI API quota exceeded"         -> "QuotaExceeded"
      [] thrown.text = "OpenAI API authentication failed"  -> "AuthenticationFailed"
      [] thrown.text = "OpenAI API error: Invalid request" -> "InvalidRequest"
      [] thrown.text = "Unable to connect to OpenAI API"   -> "ProviderUnreachable"
      [] OTHER                                             -> "ProviderError"

\* the class the rules of the claim give, from the status and code alone
ClassBySignals(e) ==
    IF e.status = 429 \/ e.code \in {"rate_limit_exceeded", "insufficient_quota"}
        THEN "QuotaExceeded"
    ELSE IF e.status = 401 THEN "AuthenticationFailed"
    ELSE IF e.status = 400 THEN "InvalidRequest"
    ELSE IF e.code \in {"ECONNREFUSED", "ENOTFOUND"} THEN "ProviderUnreachable"
    ELSE "ProviderError"

\* C15 (as claimed): the error raised for a provider error that ends an
\* invocation has the class of the first matching rule (rate limit, 401,
\* 400, connectivity, anything else), decided by the status and code of the
\* provider error whatever its type; a ProviderError carries the message.
C15_ClassifiedBySignals ==
    \A p \in Procs :
        ( /\ inv[p].caller = "analyze"
          /\ inv[p].pc = "done"
          /\ inv[p].outcome.kind = "threw" )
        => /\ ClassOf(inv[p].outcome.error) = ClassBySignals(inv[p].settled.error)
           /\ ClassOf(inv[p].outcome.error) = "ProviderError"
                 => inv[p].outcome.error.detail = inv[p].settled.error.msg

\* the analyzeJobMatch invocation of p ends in this step by raising an error
EndsWithError(p) ==
    /\ inv[p].pc \in {"inflight", "waiting"}
    /\ inv'[p].caller = "analyze"
    /\ inv'[p].pc = "done"
    /\ inv'[p].outcome.kind = "threw"

\* C16: an analyzeJobMatch invocation that ends by raising an error calls
\* recordFailure exactly once, in the step in which the error leaves it:
\* failedCalls grows by 1, the entry of the provider error is at the head of
\* the error log, and failedCalls changes in no other step.
C16_FailureRecordedOnce ==
    [][ /\ \A p \in Procs :
             EndsWithError(p) =>
                 /\ stats'.failedCalls = stats.failedCalls + 1
                 /\ Len(stats'.errors) = Len(stats.errors) + 1
                 /\ Head(stats'.errors) =
                        [timestamp |-> now,
                         message   |-> inv'[p].settled.error.msg,
                         status    |-> inv'[p].settled.error.status,
                         code      |-> inv'[p].settled.error.code]
                 /\ Tail(stats'.errors) = stats.errors
        /\ stats'.failedCalls # stats.failedCalls => \E p \in Procs : EndsWithError(p) ]_vars

\* two invocations ended with different errors, the second after three
\* provider calls; both are in the log, the later one first
C16_Witness ==
    \E p \in Procs :
        /\ inv[p].caller = "analyze"
        /\ inv[p].pc = "done"
        /\ inv[p].outcome.kind = "threw"
        /\ inv[p].calls = 3
        /\ stats.failedCalls = 2
        /\ Len(stats.errors) = 2
        /\ stats.errors[1].code = inv[p].settled.error.code
        /\ stats.errors[1].message = inv[p].settled.error.msg
        /\ stats.errors[1] # stats.errors[2]

\* an authentication (401) or malformed-request (400) error without a retry signal
NonRetriable(e) == e.status \in {400, 401} /\ ~RetrySignal(e)

\* C17 (as claimed): the error that ends an invocation, if retriable, comes
\* after three failed provider calls, and if it is a 401 or 400, after
\* exactly one provider call and no wait.
C17_SurfacedAfterThreeOrOne ==
    \A p \in Procs :
        ( /\ inv[p].caller = "analyze"
          /\ inv[p].pc = "done"
          /\ inv[p].outcome.kind = "threw" )
        => /\ RetrySignal(inv[p].settled.error) => inv[p].calls = 3
           /\ NonRetriable(inv[p].settled.error) => (inv[p].calls = 1 /\ inv[p].waits = 0)

\* C17 (amended): a retriable error of the provider is retried while fewer
\* than three provider calls were made and ends the invocation only as the
\* third failure; a 401 or 400 ends the invocation in the step it is
\* raised, with no further wait or provider call, hence after exactly one
\* provider call and no wait when no retriable failure came before it.
C17_Propagation ==
    [][ \A p \in Procs :
          (inv[p].caller = "analyze" /\ AttemptFails(p)) =>
              LET e == inv'[p].lastError
              IN  /\ (RetrySignal(e) /\ inv[p].calls < 3) => inv'[p].pc = "waiting"
                  /\ (RetrySignal(e) /\ inv'[p].pc = "done") =>
                         (inv[p].calls = 3 /\ inv[p].waits = 2)
                  /\ NonRetriable(e) =>
                         /\ inv'[p].pc = "done"
                         /\ inv'[p].settled = Threw(e)
                         /\ inv'[p].calls = inv[p].calls
                         /\ inv'[p].waits = inv[p].waits
                  /\ (NonRetriable(e) /\ inv[p].waits = 0) => inv'[p].calls = 1 ]_vars

\* an invocation ended by a 401 on its second provider call, after one wait;
\* the invocation before it ended by a quota message after three calls
C17_Witness ==
    \E p \in Procs :
        /\ inv[p].caller = "analyze"
        /\ inv[p].pc = "done"
        /\ inv[p].settled = Threw(Err(401, NoStatus, NoCode, {}, TRUE))
        /\ inv[p].calls = 2
        /\ inv[p].waits = 1
        /\ Len(stats.errors) = 2
        /\ "quota" \in stats.errors[2].message
        /\ stats.retries = 5

\* C18 (as claimed), for the first invocation, which starts with all counters
\* at 0: an invocation that missed the cache has recorded exactly one call,
\* however many provider calls it made, and when it ends the retries counter
\* has grown by the number of retries performed, the provider calls minus
\* one, which is at most 2.
C18_OneCallAndRetriesCounted ==
    \A p \in Procs :
        (runs = 1 /\ inv[p].caller = "analyze" /\ inv[p].calls >= 1) =>
            /\ stats.totalCalls = 1
            /\ inv[p].pc = "done" =>
                   /\ stats.retries = inv[p].calls - 1
                   /\ stats.retries <= 2

\* the quota and rate-limit signals of the retry predicate and of the catch
\* block: a 429 status, a message with "429", "quota" or "rate limit", the
\* codes rate_limit_exceeded and insufficient_quota
QuotaSignal(e) ==
    \/ e.status = 429
    \/ e.rstatus = 429
    \/ Includes(e, "429")
    \/ Includes(e, "quota")
    \/ Includes(e, "rate limit")
    \/ e.code \in {"rate_limit_exceeded", "insufficient_quota"}

\* C22 (as claimed): the recordFailure of an invocation that ends with the
\* provider error e adds 1 to quotaErrors exactly when e carries a quota or
\* rate-limit signal, and leaves quotaErrors unchanged otherwise.
C22_QuotaErrorsCountSignals ==
    [][ \A p \in Procs :
          EndsWithError(p) =>
              stats'.quotaErrors =
                  IF QuotaSignal(inv'[p].settled.error)
                  THEN stats.quotaErrors + 1
                  ELSE stats.quotaErrors ]_vars

(***************************************************************************)
(* The cache's interface called from outside analyzeJobMatch, the sweep    *)
(* timer and the clock.                                                    *)
(***************************************************************************)
\* aiCache.get(key)
Get(key) ==
    /\ cache' = GetStore(cache, key, now)
    /\ obs' = Call("get", key, Null, Omitted, GetValue(cache, key, now))
    /\ UNCHANGED <<now, stats, inv, runs, probe>>

\* aiCache.set(key, data, ttl); ttl = Omitted is the call with two arguments
Set(key, data, ttl) ==
    /\ cache' = SetStore(cache, key, data, ttl, now)
    /\ obs' = [Call("set", key, data, ttl, Null)
                  EXCEPT !.lastSet[key] = [data |-> data, ttl |-> SetTtl(ttl)]]
    /\ UNCHANGED <<now, stats, inv, runs, probe>>

\* aiCache.clearExpired(), the callback of the 10-minute interval timer
ClearExpired ==
    /\ cache' = ClearExpiredStore(cache, now)
    /\ obs' = Call("clearExpired", NoKey, Null, Omitted, Null)
    /\ UNCHANGED <<now, stats, inv, runs, probe>>

\* aiCache.clear()
Clear ==
    /\ cache' = ClearStore(cache)
    /\ obs' = [Call("clear", NoKey, Null, Omitted, Null)
                  EXCEPT !.lastSet = [k \in Keys |-> NoSet]]
    /\ UNCHANGED <<now, stats, inv, runs, probe>>

\* Date.now() advances by dt
Tick(dt) ==
    /\ now + dt <= DefaultTtl + ClockSlack
    /\ (now + dt) % DefaultTtl <= ClockSlack
    /\ now' = now + dt
    /\ obs' = [NoCall EXCEPT !.op = "tick"]
    /\ UNCHANGED <<cache, stats, inv, runs, probe>>

TickSteps == {1, DefaultTtl}

Ttls == {Omitted} \cup (0 .. MaxTtl)

NextCache ==
    \/ \E k \in Keys : Get(k)
    \/ \E k \in Keys, data \in Results, ttl \in Ttls : Set(k, data, ttl)
    \/ ClearExpired
    \/ Clear
    \/ \E dt \in TickSteps : Tick(dt)

SpecCache == Init /\ [][NextCache]_vars

(***************************************************************************)
(* Properties of AICache (checked under SpecCache).                        *)
(***************************************************************************)
\* C6 (as claimed): get returns a stored value only if now < expiresAt of the
\* entry; at now >= expiresAt, the instant now = expiresAt and entries set
\* with ttl = 0 included, get returns absent.
C6_ServedOnlyBeforeExpiry ==
    obs.op = "get" =>
        LET e == obs.pre[obs.key]
        IN  /\ obs.ret # Null => /\ e # NoEntry
                                 /\ obs.ret = e.data
                                 /\ now < e.expiresAt
            /\ (e # NoEntry /\ now >= e.expiresAt) => obs.ret = Null

\* C7: a get of a key whose entry's expiresAt has passed returns absent and
\* removes that entry, leaving every other entry unchanged.
C7_LazyEviction ==
    obs.op = "get" =>
        LET e == obs.pre[obs.key]
        IN  (e # NoEntry /\ now > e.expiresAt) =>
                /\ obs.ret = Null
                /\ cache[obs.key] = NoEntry
                /\ \A k \in Keys \ {obs.key} : cache[k] = obs.pre[k]

\* a get evicted its key while another entry, expired as well, stayed
C7_Witness ==
    /\ obs.op = "get"
    /\ obs.pre[obs.key] # NoEntry
    /\ now > obs.pre[obs.key].expiresAt
    /\ \E k \in Keys \ {obs.key} : cache[k] # NoEntry /\ now > cache[k].expiresAt

\* C8: set(key, value, ttl) with ttl > 0 followed by get(key) at the same
\* instant, with no clear in between, returns the value that was stored.
C8_SetThenGet ==
    (obs.op = "get" /\ obs.lastSet[obs.key] # NoSet) =>
        (obs.lastSet[obs.key].ttl > 0 => obs.ret = obs.lastSet[obs.key].data)

\* a get that follows a set of its key with ttl = 1 at the same instant, the
\* other key having been set at that instant too
C8_Witness ==
    /\ obs.op = "get"
    /\ obs.lastSet[obs.key] # NoSet
    /\ obs.lastSet[obs.key].ttl = 1
    /\ obs.ret = obs.lastSet[obs.key].data
    /\ \E k \in Keys \ {obs.key} : obs.lastSet[k] # NoSet

\* C9: set(key, value, ttl) makes the entry of key (value, now + ttl), with
\* the default ttl when ttl is omitted, whatever entry the key had, and
\* leaves the entries of all other keys unchanged.
C9_SetOverwrites ==
    obs.op = "set" =>
        /\ cache[obs.key] =
               [data |-> obs.data,
                expiresAt |-> now + (IF obs.ttl = Omitted THEN DefaultTtl ELSE obs.ttl)]
        /\ \A k \in Keys \ {obs.key} : cache[k] = obs.pre[k]

\* a set without ttl replaced an entry with another value and expiry while
\* the other key held an entry
C9_Witness ==
    /\ obs.op = "set"
    /\ obs.ttl = Omitted
    /\ obs.pre[obs.key] # NoEntry
    /\ obs.pre[obs.key].data # obs.data
    /\ obs.pre[obs.key].expiresAt # now + DefaultTtl
    /\ cache[obs.key].expiresAt = now + DefaultTtl
    /\ \E k \in Keys \ {obs.key} : cache[k] # NoEntry

\* C10 (as claimed): after clearExpired the store holds no expired entry, an
\* entry being expired unless now < expiresAt, and every entry that was not
\* expired is still there with the same value and expiresAt.
C10_SweepRemovesExpired ==
    obs.op = "clearExpired" =>
        \A k \in Keys :
            /\ cache[k] # NoEntry => now < cache[k].expiresAt
            /\ (obs.pre[k] # NoEntry /\ now < obs.pre[k].expiresAt) => cache[k] = obs.pre[k]

\* C37 (as claimed): a get leaves every entry it does not remove as it was,
\* expiresAt included; an entry set at time t with ttl T, whose expiresAt is
\* t + T, is no longer returned once T has elapsed since t, that is at
\* now >= expiresAt; and the expiry of a key's entry changes only by a set
\* for that key.
C37_ReadKeepsExpiry ==
    /\ [](obs.op = "get" =>
            /\ \A k \in Keys : cache[k] # NoEntry => cache[k] = obs.pre[k]
            /\ obs.ret # Null => now < obs.pre[obs.key].expiresAt)
    /\ [][ \A k \in Keys :
             ( /\ cache[k] # NoEntry
               /\ cache'[k] # NoEntry
               /\ cache'[k].expiresAt # cache[k].expiresAt )
             => (obs'.op = "set" /\ obs'.key = k) ]_vars

(***************************************************************************)
(* The cache while time keeps advancing and the sweep timer keeps firing.  *)
(* The clock stops at Horizon, so set is called only for entries that      *)
(* expire before it.                                                       *)
(***************************************************************************)
Horizon == DefaultTtl + ClockSlack

\* aiCache.set(key, data, ttl) of an entry that expires before the clock stops
SetBeforeHorizon(key, data, ttl) ==
    /\ now + SetTtl(ttl) < Horizon
    /\ Set(key, data, ttl)

\* Date.now() advances
TimePasses == \E dt \in TickSteps : Tick(dt)

NextSweep ==
    \/ \E k \in Keys : Get(k)
    \/ \E k \in Keys, data \in Results, ttl \in Ttls : SetBeforeHorizon(k, data, ttl)
    \/ ClearExpired
    \/ TimePasses

SpecSweep ==
    Init /\ [][NextSweep]_vars /\ WF_vars(TimePasses) /\ WF_vars(ClearExpired)

\* C34: when time keeps advancing and the sweep timer keeps firing, an entry
\* whose expiry has passed is eventually gone (removed, or replaced by a set)
\* and every entry is eventually removed, whether or not its key is read;
\* the sweep removes the entries whose expiry has passed and no other.
C34_ExpiredEventuallySwept ==
    /\ \A k \in Keys :
           (cache[k] # NoEntry /\ now > cache[k].expiresAt)
               ~> (cache[k] = NoEntry \/ now <= cache[k].expiresAt)
    /\ \A k \in Keys : (cache[k] # NoEntry) ~> (cache[k] = NoEntry)
    /\ [][ obs'.op = "clearExpired" =>
              \A k \in Keys :
                  IF cache[k] # NoEntry /\ now > cache[k].expiresAt
                  THEN cache'[k] = NoEntry
                  ELSE cache'[k] = cache[k] ]_vars

\* both keys held entries written with the default ttl that were not read
\* since, the clock has passed their expiry and the sweep has removed them
C34_Witness ==
    /\ obs.op = "clearExpired"
    /\ \A k \in Keys :
           /\ obs.pre[k] # NoEntry
           /\ obs.pre[k].expiresAt >= DefaultTtl
           /\ now > obs.pre[k].expiresAt
           /\ cache[k] = NoEntry

(***************************************************************************)
(* analyzeJobMatch invocations made one after another while the clock      *)
(* advances.                                                               *)
(***************************************************************************)
\* errors the provider raises in these behaviours
ProviderErrors ==
    { Err(NoStatus, NoStatus, NoCode, {"quota"}, FALSE),
      Err(400, NoStatus, NoCode, {}, TRUE) }

\* the callers invoke one after another: "a" makes the earlier invocations,
\* "b" the later ones
InTurn(p) == IF p = "a" THEN inv["b"].pc = "idle" ELSE inv["a"].pc = "done"

NextAnalyze ==
    \/ \E p \in Procs :
          \/ /\ InTurn(p)
             /\ \E u \in Profiles, j \in Jobs : StartAnalyze(p, u, j)
          \/ \E v \in Completions : FnResolves(p, v)
          \/ \E e \in ProviderErrors : FnRejects(p, e)
          \/ WaitElapses(p)
    \/ \E dt \in TickSteps : Tick(dt)

SpecAnalyze == Init /\ [][NextAnalyze]_vars

(***************************************************************************)
(* Properties of analyzeJobMatch and the cache (checked under SpecAnalyze).*)
(***************************************************************************)
\* this step is the start of an analyzeJobMatch invocation of p
StartsAnalyze(p) ==
    /\ runs' = runs + 1
    /\ InTurn(p)
    /\ inv'[p].caller = "analyze"
    /\ \A q \in Procs \ {p} : inv'[q] = inv[q]

\* the entry is there and its expiry lies ahead
Unexpired(entry, t) == entry # NoEntry /\ t < entry.expiresAt

\* C12: an analyzeJobMatch invocation that finds an unexpired entry for its
\* key returns the entry's value, adds exactly 1 to cacheHits, does not invoke
\* the provider and leaves totalCalls, successfulCalls, failedCalls, retries
\* and the cache as they were.
C12_CacheHit ==
    [][ \A p \in Procs : \A k \in Keys :
          ( /\ StartsAnalyze(p)
            /\ inv'[p].key = k
            /\ Unexpired(cache[k], now) )
          => /\ inv'[p].pc = "done"
             /\ inv'[p].outcome = Returned(cache[k].data)
             /\ inv'[p].calls = 0
             /\ stats'.cacheHits = stats.cacheHits + 1
             /\ stats'.totalCalls = stats.totalCalls
             /\ stats'.successfulCalls = stats.successfulCalls
             /\ stats'.failedCalls = stats.failedCalls
             /\ stats'.retries = stats.retries
             /\ cache' = cache ]_vars

\* an invocation was served from the cache some time after the entry was
\* written by the only call recorded so far
C12_Witness ==
    \E p \in Procs :
        /\ inv[p].caller = "analyze"
        /\ inv[p].pc = "done"
        /\ inv[p].calls = 0
        /\ inv[p].outcome.kind = "returned"
        /\ inv[p].doneAt \in 1 .. ClockSlack
        /\ cache[inv[p].key] # NoEntry
        /\ cache[inv[p].key].expiresAt < inv[p].doneAt + DefaultTtl
        /\ stats.cacheHits = 1
        /\ stats.totalCalls = 1

\* a finished invocation that missed the cache and got a completion
MissedAndSucceeded(r) ==
    /\ r.caller = "analyze"
    /\ r.pc = "done"
    /\ r.calls >= 1
    /\ r.outcome.kind = "returned"

\* C13: when an invocation missed the cache and the provider call succeeded,
\* the parsed result is in the cache under the key of the lookup when the
\* result is returned: a get of that key at the instant of the return yields
\* the returned result.
C13_StoredBeforeReturn ==
    \A p \in Procs :
        (MissedAndSucceeded(inv[p]) /\ now = inv[p].doneAt) =>
            /\ GetValue(cache, inv[p].key, now) = inv[p].outcome.value
            /\ cache[inv[p].key] = Entry(inv[p].outcome.value, now + DefaultTtl)

\* the third provider call of an invocation succeeded after the clock had
\* advanced, and the caller has just got the result
C13_Witness ==
    \E p \in Procs :
        /\ MissedAndSucceeded(inv[p])
        /\ inv[p].calls = 3
        /\ inv[p].doneAt >= 1
        /\ now = inv[p].doneAt
        /\ cache[inv[p].key].expiresAt = now + DefaultTtl

\* C14: among invocations made one after another with the same inputs, once
\* one has missed the cache and succeeded, a later one that starts before the
\* ttl of the entry has elapsed records a cache hit, returns the same result
\* and does not invoke the provider.
C14_HitWithinTtl ==
    [][ \A p \in Procs : \A q \in Procs \ {p} :
          ( /\ StartsAnalyze(q)
            /\ MissedAndSucceeded(inv[p])
            /\ inv'[q].key = inv[p].key
            /\ now < inv[p].doneAt + DefaultTtl )
          => /\ inv'[q].pc = "done"
             /\ inv'[q].calls = 0
             /\ inv'[q].outcome = inv[p].outcome
             /\ stats'.cacheHits = stats.cacheHits + 1
             /\ stats'.totalCalls = stats.totalCalls ]_vars

\* the first invocation missed, called the provider once and got the
\* completion with MATCHING_PERCENTAGE 82; a later invocation with the same
\* inputs, started after the clock had advanced, was served that result
C14_Witness ==
    \E p \in Procs : \E q \in Procs \ {p} :
        /\ MissedAndSucceeded(inv[p])
        /\ inv[p].calls = 1
        /\ inv[p].outcome.value.matchingPercentage = 82
        /\ inv[q].caller = "analyze"
        /\ inv[q].pc = "done"
        /\ inv[q].key = inv[p].key
        /\ inv[q].calls = 0
        /\ inv[q].outcome = inv[p].outcome
        /\ inv[q].doneAt > inv[p].doneAt
        /\ stats.totalCalls = 1
        /\ stats.cacheHits = 1

\* the analyzeJobMatch invocation of p ends in this step with a result
EndsWithResult(p) ==
    /\ inv[p].pc = "inflight"
    /\ inv'[p].caller = "analyze"
    /\ inv'[p].pc = "done"
    /\ inv'[p].outcome.kind = "returned"

\* C31: an analyzeJobMatch invocation that ends by raising an error writes
\* nothing to the cache: the step in which the error leaves it changes no
\* entry, an entry is written only by an invocation ending with a result and
\* removed only by the lookup of an invocation that finds it expired, no get
\* of its key returns a value when it has ended, and the next caller's first
\* invocation with the same inputs misses, records a call and invokes the
\* provider.
C31_FailuresNeverCached ==
    [][ /\ \A p \in Procs :
             EndsWithError(p) =>
                 /\ cache' = cache
                 /\ GetValue(cache', inv'[p].key, now) = Null
        /\ \A k \in Keys :
             cache'[k] # cache[k] =>
                 \/ \E p \in Procs : EndsWithResult(p) /\ inv'[p].key = k
                 \/ /\ cache'[k] = NoEntry
                    /\ ExpiredOnRead(cache[k], now)
                    /\ \E p \in Procs : StartsAnalyze(p) /\ inv'[p].key = k
        /\ \A p \in Procs : \A q \in Procs \ {p} :
             ( /\ StartsAnalyze(q)
               /\ inv[q].pc = "idle"
               /\ inv[p].caller = "analyze"
               /\ inv[p].pc = "done"
               /\ inv[p].outcome.kind = "threw"
               /\ inv'[q].key = inv[p].key )
             => /\ inv'[q].pc = "inflight"
                /\ inv'[q].calls = 1
                /\ stats'.totalCalls = stats.totalCalls + 1
                /\ stats'.cacheHits = stats.cacheHits ]_vars

\* an invocation ended with an error after three provider calls and the next
\* caller's invocation with the same inputs has missed and awaits the
\* provider, the key having no entry
C31_Witness ==
    \E p \in Procs : \E q \in Procs \ {p} :
        /\ inv[p].caller = "analyze"
        /\ inv[p].pc = "done"
        /\ inv[p].outcome.kind = "threw"
        /\ inv[p].calls = 3
        /\ inv[q].caller = "analyze"
        /\ inv[q].pc = "inflight"
        /\ inv[q].key = inv[p].key
        /\ inv[q].calls = 1
        /\ cache[inv[p].key] = NoEntry
        /\ stats.totalCalls = 2
        /\ stats.failedCalls = 1
        /\ stats.cacheHits = 0

(***************************************************************************)
(* generateKey called on user documents and job postings.                  *)
(***************************************************************************)
\* largest experienceYears of a user document
MaxYears == 1

ProfessionalInfos ==
    { Undefined, [currentTitle |-> Undefined, experienceYears |-> Num(0)] } \cup
    { [currentTitle |-> Str("dev"), experienceYears |-> Num(y)] : y \in 1 .. MaxYears }

OtherInfos == { Undefined, [skills |-> Arr(<<>>)], [skills |-> Arr(<<Str("js")>>)] }

Educations == { [degree |-> Str("bsc")], [degree |-> Str("msc")] }

\* user documents: professionalInfo, otherInfo (skills, softSkills,
\* hobbiesAndInterests) and education are the paths of the user schema
KeyProfiles ==
    { [professionalInfo |-> pi, otherInfo |-> oi, education |-> ed] :
        pi \in ProfessionalInfos, oi \in OtherInfos, ed \in Educations }

\* job postings: the object analyzeFromUrl builds (jobUrl only) and manually
\* entered postings
KeyJobs ==
    { [jobUrl |-> Str("u1")], [jobUrl |-> Str("u2")] } \cup
    { [jobTitle |-> Str("backend"), jobDescription |-> Str("api"), requirements |-> r,
       company |-> Str("acme")] : r \in {Undefined, Str("")} } \cup
    { [jobTitle |-> Str("backend"), jobDescription |-> Str("ml"), requirements |-> Str(""),
       company |-> Str("acme")] }

NoKeyCall == [none |-> TRUE]

\* aiCache.generateKey(userProfile, jobDetails); probe keeps the last two calls
GenerateKey(userProfile, jobDetails) ==
    /\ probe' = [op   |-> "generateKey",
                 prev |-> IF probe.op = "generateKey" THEN probe.last ELSE NoKeyCall,
                 last |-> [userProfile |-> userProfile, jobDetails |-> jobDetails,
                           key |-> generateKey(userProfile, jobDetails)]]
    /\ UNCHANGED <<now, cache, stats, inv, obs, runs>>

NextKey == \E u \in KeyProfiles, j \in KeyJobs : GenerateKey(u, j)

SpecKey == Init /\ [][NextKey]_vars

\* the fields the key is said to be derived from, normalized: skills,
\* experience years, current title and education of the user; title,
\* description, requirements and company of the job
ListedFields(u, j) ==
    [skills       |-> OrElse(Prop(Prop(u, "otherInfo"), "skills"), Arr(<<>>)),
     experience   |-> OrElse(Prop(Prop(u, "professionalInfo"), "experienceYears"), Num(0)),
     currentTitle |-> OrElse(Prop(Prop(u, "professionalInfo"), "currentTitle"), Str("")),
     education    |-> Prop(u, "education"),
     title        |-> OrElse(Prop(j, "jobTitle"), Str("")),
     description  |-> OrElse(Prop(j, "jobDescription"), Str("")),
     requirements |-> OrElse(Prop(j, "requirements"), Str("")),
     company      |-> OrElse(Prop(j, "company"), Str(""))]

\* C11 (as claimed): two calls of generateKey whose arguments agree on all the
\* normalized listed fields return the same key, and two calls whose
\* arguments differ in any of them return different keys.
C11_KeyOfListedFields ==
    (probe.op = "generateKey" /\ probe.prev # NoKeyCall) =>
        ( ListedFields(probe.prev.userProfile, probe.prev.jobDetails)
            = ListedFields(probe.last.userProfile, probe.last.jobDetails)
          <=> probe.prev.key = probe.last.key )

(***************************************************************************)
(* The operations of the monitor called in any order.                      *)
(***************************************************************************)
\* largest totalCalls and successfulCalls
MaxCalls == 10
\* largest failedCalls
MaxFailures == 2
\* largest cacheHits
MaxHits == 1
\* largest retries
MaxRetryCount == 3

\* errors handed to recordFailure
MonitorErrors ==
    { Err(NoStatus, NoStatus, NoCode, {"quota"}, FALSE),
      Err(400, NoStatus, NoCode, {}, TRUE) }

\* apiMonitor.recordCall()
RecordCall ==
    /\ stats.totalCalls < MaxCalls
    /\ stats' = recordCall(stats)
    /\ probe' = [op |-> "recordCall"]
    /\ UNCHANGED <<now, cache, inv, obs, runs>>

\* apiMonitor.recordSuccess()
RecordSuccess ==
    /\ stats.successfulCalls < MaxCalls
    /\ stats' = recordSuccess(stats, now)
    /\ probe' = [op |-> "recordSuccess"]
    /\ UNCHANGED <<now, cache, inv, obs, runs>>

\* apiMonitor.recordFailure(e)
RecordFailure(e) ==
    /\ stats.failedCalls < MaxFailures
    /\ stats' = recordFailure(stats, e, now)
    /\ probe' = [op |-> "recordFailure"]
    /\ UNCHANGED <<now, cache, inv, obs, runs>>

\* apiMonitor.recordCacheHit()
RecordCacheHit ==
    /\ stats.cacheHits < MaxHits
    /\ stats' = recordCacheHit(stats)
    /\ probe' = [op |-> "recordCacheHit"]
    /\ UNCHANGED <<now, cache, inv, obs, runs>>

\* apiMonitor.recordRetry()
RecordRetry ==
    /\ stats.retries < MaxRetryCount
    /\ stats' = recordRetry(stats)
    /\ probe' = [op |-> "recordRetry"]
    /\ UNCHANGED <<now, cache, inv, obs, runs>>

\* apiMonitor.getStats()
GetStats ==
    /\ probe' = [op |-> "getStats", ret |-> getStats(stats)]
    /\ UNCHANGED <<now, cache, stats, inv, obs, runs>>

\* apiMonitor.getHealth()
GetHealth ==
    /\ probe' = [op |-> "getHealth", ret |-> getHealth(stats)]
    /\ UNCHANGED <<now, cache, stats, inv, obs, runs>>

\* apiMonitor.getRecentErrors(limit); limit = Omitted is the call without argument
GetRecentErrors(limit) ==
    /\ probe' = [op |-> "getRecentErrors", ret |-> getRecentErrors(stats, limit)]
    /\ UNCHANGED <<now, cache, stats, inv, obs, runs>>

\* apiMonitor.reset()
Reset ==
    /\ stats' = reset
    /\ probe' = [op |-> "reset"]
    /\ UNCHANGED <<now, cache, inv, obs, runs>>

NextMonitor ==
    \/ RecordCall
    \/ RecordSuccess
    \/ \E e \in MonitorErrors : RecordFailure(e)
    \/ RecordCacheHit
    \/ RecordRetry
    \/ GetStats
    \/ GetHealth
    \/ \E limit \in {Omitted, 1} : GetRecentErrors(limit)
    \/ Reset

SpecMonitor == Init /\ [][NextMonitor]_vars

\* the status the rules of the claim give
StatusByRules(st) ==
    IF 2 * st.successfulCalls < st.totalCalls THEN "critical"
    ELSE IF \/ 5 * st.successfulCalls < 4 * st.totalCalls
            \/ 10 * st.quotaErrors > 3 * st.failedCalls
            \/ st.retries > 2 * st.successfulCalls
         THEN "warning"
    ELSE "healthy"

\* C19 (as claimed): once calls are recorded, the status of getHealth is
\* critical if successfulCalls / totalCalls < 50%, else warning if the rate is
\* below 80% or quotaErrors > 30% of failedCalls or retries > 2 *
\* successfulCalls, else healthy.
C19_StatusOfCounters ==
    (probe.op = "getHealth" /\ stats.totalCalls > 0) =>
        probe.ret.status = StatusByRules(stats)

\* the six counters of the monitor
Counters ==
    {"totalCalls", "successfulCalls", "failedCalls", "cacheHits", "quotaErrors", "retries"}

\* the counter a recording operation is said to increment
OwnCounter(op) ==
    CASE op = "recordCall"     -> "totalCalls"
      [] op = "recordSuccess"  -> "successfulCalls"
      [] op = "recordFailure"  -> "failedCalls"
      [] op = "recordCacheHit" -> "cacheHits"
      [] op = "recordRetry"    -> "retries"

\* C20: no operation of the monitor other than reset() decreases a counter:
\* a recording operation adds exactly 1 to its own counter and leaves the
\* others unchanged, except that recordFailure may add 1 to quotaErrors, and
\* getStats, getHealth and getRecentErrors change no counter.
C20_CountersMonotonic ==
    [][ probe'.op # "reset" =>
          /\ \A c \in Counters : stats'[c] >= stats[c]
          /\ probe'.op \in {"getStats", "getHealth", "getRecentErrors"} =>
                 \A c \in Counters : stats'[c] = stats[c]
          /\ probe'.op \in {"recordCall", "recordSuccess", "recordFailure",
                             "recordCacheHit", "recordRetry"} =>
                 /\ stats'[OwnCounter(probe'.op)] = stats[OwnCounter(probe'.op)] + 1
                 /\ \A c \in Counters \ {OwnCounter(probe'.op)} :
                        \/ stats'[c] = stats[c]
                        \/ /\ probe'.op = "recordFailure"
                           /\ c = "quotaErrors"
                           /\ stats'[c] = stats[c] + 1 ]_vars

\* a failure with a quota message has just been recorded while every other
\* counter had been incremented before
C20_Witness ==
    /\ probe.op = "recordFailure"
    /\ stats.failedCalls = 2
    /\ stats.quotaErrors = 1
    /\ "quota" \in stats.errors[1].message
    /\ stats.totalCalls >= 1
    /\ stats.successfulCalls >= 1
    /\ stats.cacheHits >= 1
    /\ stats.retries >= 1
\* C25: in a snapshot of getStats with totalCalls = 0 the three rates are
\* '0%', whatever the other counters are.
C25_RatesZeroWithoutCalls ==
    (probe.op = "getStats" /\ probe.ret.totalCalls = 0) =>
        /\ probe.ret.successRate = [text |-> "0%"]
        /\ probe.ret.cacheHitRate = [text |-> "0%"]
        /\ probe.ret.errorRate = [text |-> "0%"]

\* a snapshot taken when a cache hit, a success and a failure were recorded
\* and no call
C25_Witness ==
    /\ probe.op = "getStats"
    /\ probe.ret.totalCalls = 0
    /\ probe.ret.cacheHits > 0
    /\ probe.ret.successfulCalls > 0
    /\ probe.ret.failedCalls > 0

Recommends(health, text) ==
    \E i \in 1 .. Len(health.recommendations) : health.recommendations[i] = text

\* C26: a status of getHealth other than healthy comes with a non-empty list
\* of recommendations that holds the text of every threshold that is
\* crossed: the success rate below 50% or below 80%, quota errors above 30%
\* of the failures, more retries than twice the successes.
C26_NonHealthyRecommends ==
    (probe.op = "getHealth" /\ probe.ret.status # "healthy") =>
        LET rate == HealthRate(stats)
        IN  /\ probe.ret.recommendations # <<>>
            /\ 2 * rate.num < rate.den =>
                   Recommends(probe.ret, "More than 50% of API calls are failing")
            /\ (2 * rate.num >= rate.den /\ 5 * rate.num < 4 * rate.den) =>
                   Recommends(probe.ret, "Success rate is below 80%")
            /\ (stats.failedCalls > 0 /\ 10 * stats.quotaErrors > 3 * stats.failedCalls) =>
                   Recommends(probe.ret, "Frequent quota errors detected")
            /\ stats.retries > 2 * stats.successfulCalls =>
                   Recommends(probe.ret, "High retry rate detected")

\* getHealth answered warning only because of the quota errors, with many
\* retries recorded: the rate is at least 80%
C26_Witness ==
    /\ probe.op = "getHealth"
    /\ probe.ret.status = "warning"
    /\ stats.totalCalls > 0
    /\ 5 * stats.successfulCalls >= 4 * stats.totalCalls
    /\ stats.quotaErrors = 1
    /\ stats.retries > 2 * stats.successfulCalls
    /\ Len(probe.ret.recommendations) = 4


(***************************************************************************)
(* The error log of the monitor filled beyond maxErrors.                   *)
(***************************************************************************)
\* largest failedCalls while the log is filled
MaxLogged == 52

\* the error handed to recordFailure while the log is filled; the entries
\* differ by their timestamp
LoggedErrors == { Err(NoStatus, NoStatus, "ETIMEDOUT", {}, FALSE) }

\* apiMonitor.recordFailure(e), as often as the log needs to overflow
RecordFailureLogged(e) ==
    /\ stats.failedCalls < MaxLogged
    /\ stats' = recordFailure(stats, e, now)
    /\ probe' = [op |-> "recordFailure", error |-> e]
    /\ UNCHANGED <<now, cache, inv, obs, runs>>

NextLog ==
    \/ \E e \in LoggedErrors : RecordFailureLogged(e)
    \/ \E limit \in {Omitted, 1} : GetRecentErrors(limit)
    \/ Tick(DefaultTtl)

SpecLog == Init /\ [][NextLog]_vars

\* C21: after a recordFailure the log holds at most maxErrors entries, its
\* head is the entry of the failure just recorded and the entries behind it
\* are the former log, without its last (oldest) entry if the former log was
\* full; getRecentErrors returns the log from its head on.
C21_LogBoundedNewestFirst ==
    [][ /\ (probe'.op = "recordFailure" /\ stats' # stats) =>
            /\ Len(stats'.errors) <= maxErrors
            /\ stats'.errors[1] = ErrorEntry(probe'.error, now)
            /\ Tail(stats'.errors) =
                   IF Len(stats.errors) = maxErrors
                   THEN SubSeq(stats.errors, 1, maxErrors - 1)
                   ELSE stats.errors
        /\ (probe'.op = "getRecentErrors" /\ stats.errors # <<>>) =>
            probe'.ret[1] = stats.errors[1] ]_vars

\* a failure was recorded while the log held maxErrors entries, the oldest of
\* them older than the newest
C21_Witness ==
    /\ probe.op = "recordFailure"
    /\ stats.failedCalls = maxErrors + 1
    /\ Len(stats.errors) = maxErrors
    /\ stats.errors[1].timestamp = DefaultTtl
    /\ stats.errors[maxErrors].timestamp = 0

(***************************************************************************)
(* analyzeJobMatch invocations running concurrently: the event loop runs   *)
(* one invocation from an await to its next await, in any order.           *)
(***************************************************************************)
NextConcurrent ==
    \E p \in Procs :
        \/ \E u \in Profiles, j \in Jobs : StartAnalyze(p, u, j)
        \/ \E v \in Completions : FnResolves(p, v)
        \/ \E e \in ProviderErrors : FnRejects(p, e)
        \/ WaitElapses(p)

SpecConcurrent == Init /\ [][NextConcurrent]_vars

\* no invocation is between its start and its end
AllFinished == \A p \in Procs : inv[p].pc \in {"idle", "done"}

\* in this step an invocation starts and is served from the cache (its record
\* may equal the one of the caller's previous invocation)
HitsNow ==
    /\ runs' = runs + 1
    /\ \/ inv' = inv
       \/ \E p \in Procs : inv'[p] # inv[p] /\ inv'[p].pc = "done" /\ inv'[p].calls = 0

\* in this step an invocation starts, misses the cache and calls the provider
MissesNow ==
    /\ runs' = runs + 1
    /\ \E p \in Procs : inv'[p] # inv[p] /\ inv'[p].pc = "inflight"

\* in this step the invocation of p that missed the cache ends
EndsNow(p) ==
    /\ inv[p].pc \in {"inflight", "waiting"}
    /\ inv'[p].pc = "done"

\* C23: whatever the interleaving, in every step cacheHits grows by the
\* number of invocations that hit in the step, totalCalls by the number that
\* missed, successfulCalls + failedCalls by the number of missed invocations
\* that end, and the cache changes only at the key of an invocation that ends
\* with a result, which then holds that result; hence, once all invocations
\* have finished, cacheHits + totalCalls is the number of invocations,
\* successfulCalls + failedCalls = totalCalls and every entry is the one of
\* the last successful writer of its key.
C23_NoLostUpdate ==
    /\ [](AllFinished =>
            /\ stats.cacheHits + stats.totalCalls = runs
            /\ stats.successfulCalls + stats.failedCalls = stats.totalCalls)
    /\ [][ /\ stats'.cacheHits = stats.cacheHits + (IF HitsNow THEN 1 ELSE 0)
           /\ stats'.totalCalls = stats.totalCalls + (IF MissesNow THEN 1 ELSE 0)
           /\ stats'.successfulCalls + stats'.failedCalls =
                  stats.successfulCalls + stats.failedCalls
                      + Cardinality({p \in Procs : EndsNow(p)})
           /\ \A k \in Keys :
                  IF \E p \in Procs : /\ EndsNow(p)
                                      /\ inv'[p].key = k
                                      /\ inv'[p].outcome.kind = "returned"
                  THEN \E p \in Procs :
                          /\ EndsNow(p)
                          /\ cache'[k] = Entry(inv'[p].outcome.value, now + DefaultTtl)
                  ELSE cache'[k] = cache[k] ]_vars

\* two invocations with the same inputs were in flight at the same time,
\* both missed the cache and got different completions, "b" after a retry;
\* the cache holds the result of "a"
C23_Witness ==
    /\ MissedAndSucceeded(inv["a"])
    /\ MissedAndSucceeded(inv["b"])
    /\ inv["a"].key = inv["b"].key
    /\ inv["a"].outcome # inv["b"].outcome
    /\ inv["b"].waits = 1
    /\ cache[inv["a"].key].data = inv["a"].outcome.value
    /\ stats.totalCalls = 2
    /\ stats.successfulCalls = 2
    /\ stats.retries = 1

\* the invocation of p has missed the cache and has not ended
InFlight(r) == r.caller = "analyze" /\ r.pc \in {"inflight", "waiting"}

\* C32: there is no single-flight de-duplication.  An invocation that starts
\* while another one with the same key is in flight and the key has no entry
\* misses, records a call and invokes the provider, and leaves the other
\* invocation as it is; two invocations with the same key in flight have both
\* invoked the provider and two calls are recorded for them; and when the
\* second of the two ends with a result, the entry of the key is that
\* result, whatever the first one wrote.
C32_NoSingleFlight ==
    /\ [](\A p \in Procs : \A q \in Procs \ {p} :
            (InFlight(inv[p]) /\ InFlight(inv[q]) /\ inv[p].key = inv[q].key) =>
                /\ inv[p].calls >= 1
                /\ inv[q].calls >= 1
                /\ stats.totalCalls >= stats.successfulCalls + stats.failedCalls + 2)
    /\ [][ \A p \in Procs : \A q \in Procs \ {p} :
             /\ ( /\ runs' = runs + 1
                  /\ InFlight(inv[p])
                  /\ inv'[q].key = inv[p].key
                  /\ cache[inv[p].key] = NoEntry )
                => /\ inv'[q].caller = "analyze"
                   /\ inv'[q].pc = "inflight"
                   /\ inv'[q].calls = 1
                   /\ inv'[p] = inv[p]
                   /\ stats'.totalCalls = stats.totalCalls + 1
                   /\ stats'.cacheHits = stats.cacheHits
             /\ ( /\ EndsWithResult(p)
                  /\ MissedAndSucceeded(inv[q])
                  /\ inv[q].key = inv'[p].key )
                => /\ cache'[inv'[p].key] = Entry(inv'[p].outcome.value, now + DefaultTtl)
                   /\ stats'.successfulCalls = stats.successfulCalls + 1 ]_vars

\* "a" and "b" started with the same inputs before either had written, each
\* called the provider once and got a different completion; "b" wrote last
\* and the entry is its result
C32_Witness ==
    /\ MissedAndSucceeded(inv["a"])
    /\ MissedAndSucceeded(inv["b"])
    /\ inv["a"].key = inv["b"].key
    /\ inv["a"].calls = 1
    /\ inv["b"].calls = 1
    /\ inv["a"].outcome.value.matchingPercentage = 82
    /\ inv["b"].outcome.value.matchingPercentage = 50
    /\ cache[inv["a"].key].data = inv["b"].outcome.value
    /\ stats.totalCalls = 2
    /\ stats.successfulCalls = 2
    /\ stats.cacheHits = 0

\* the invocation of p is suspended in `await wait(delay)`
Waiting(r) == r.caller = "analyze" /\ r.pc = "waiting"

\* C33: while an invocation is suspended in the backoff wait, every step of
\* another invocation is possible: it can start with any inputs, its provider
\* call can resolve or reject, its own wait can end; each such step leaves
\* the waiting invocation as it is and has its full effect on the cache and
\* the monitor (a hit is served and counted, a miss records a call, a result
\* is written to the cache and counted as a success).
C33_WaitDoesNotBlock ==
    /\ [](\A p \in Procs : \A q \in Procs \ {p} :
            Waiting(inv[p]) =>
                /\ (inv[q].pc \in {"idle", "done"} /\ runs < MaxRuns) =>
                       \A u \in Profiles, j \in Jobs : ENABLED StartAnalyze(q, u, j)
                /\ inv[q].pc = "inflight" =>
                       /\ \A v \in Completions : ENABLED FnResolves(q, v)
                       /\ \A e \in ProviderErrors : ENABLED FnRejects(q, e)
                /\ inv[q].pc = "waiting" => ENABLED WaitElapses(q))
    /\ [][ \A p \in Procs : \A q \in Procs \ {p} :
             (Waiting(inv[p]) /\ (runs' = runs + 1 \/ inv'[q] # inv[q])) =>
                 /\ inv'[p] = inv[p]
                 /\ runs' = runs + 1 =>
                        IF GetValue(cache, inv'[q].key, now) # Null
                        THEN /\ inv'[q].pc = "done"
                             /\ inv'[q].outcome = Returned(cache[inv'[q].key].data)
                             /\ stats'.cacheHits = stats.cacheHits + 1
                        ELSE /\ inv'[q].pc = "inflight"
                             /\ stats'.totalCalls = stats.totalCalls + 1
                 /\ EndsWithResult(q) =>
                        /\ cache'[inv'[q].key] =
                               Entry(inv'[q].outcome.value, now + DefaultTtl)
                        /\ stats'.successfulCalls = stats.successfulCalls + 1
                 /\ EndsWithError(q) =>
                        stats'.failedCalls = stats.failedCalls + 1 ]_vars

\* "a" is waiting after its first provider call failed; "b" has missed the
\* cache for the same key, called the provider, written its result to the
\* cache and recorded the success
C33_Witness ==
    /\ Waiting(inv["a"])
    /\ inv["a"].calls = 1
    /\ inv["a"].waits = 1
    /\ MissedAndSucceeded(inv["b"])
    /\ inv["b"].key = inv["a"].key
    /\ cache[inv["b"].key].data = inv["b"].outcome.value
    /\ stats.totalCalls = 2
    /\ stats.successfulCalls = 1
    /\ stats.failedCalls = 0
    /\ stats.retries = 1

(***************************************************************************)
(* One caller's analyzeJobMatch invocations made one after another, more   *)
(* of them than in the other behaviours, so that one result is served from *)
(* the cache more than once.                                               *)
(***************************************************************************)
MaxServed == 3

ServedAnalyze(p, userProfile, jobDetails) ==
    /\ inv[p].pc \in {"idle", "done"}
    /\ runs < MaxServed
    /\ BeginAnalyze(p, userProfile, jobDetails)

NextServed ==
    \/ \E u \in Profiles, j \in Jobs : ServedAnalyze("a", u, j)
    \/ \E v \in Completions : FnResolves("a", v)
    \/ \E e \in ProviderErrors : FnRejects("a", e)
    \/ WaitElapses("a")

SpecServed == Init /\ [][NextServed]_vars

\* a rate as a number of hundredths of a percent: '0%' is 0
RateValue(rate) == IF "fixed2" \in DOMAIN rate THEN rate.fixed2 ELSE 0

\* 0% <= rate <= 100%
IsPercentage(rate) == RateValue(rate) >= 0 /\ RateValue(rate) <= 10000

\* C35 (as claimed): in every state reached through analyzeJobMatch
\* invocations the three rates of getStats lie between 0% and 100% and the
\* successRate of getStats is the successRate of getHealth.
C35_RatesBoundedAndAgree ==
    runs > 0 =>
        /\ IsPercentage(getStats(stats).successRate)
        /\ IsPercentage(getStats(stats).cacheHitRate)
        /\ IsPercentage(getStats(stats).errorRate)
        /\ RateValue(getStats(stats).successRate) = RateValue(getHealth(stats).successRate)

(***************************************************************************)
(* parseAIResponse on the text of a completion.  A text is a sequence of   *)
(* tokens separated by optional white space: a section label, a run of     *)
(* digits, a group of list lines ("- x"), prose, or a character that is    *)
(* neither a digit nor white space ("[", "*").  len is the number of        *)
(* characters of the token.                                                *)
(***************************************************************************)
\* largest number of tokens of a completion
MaxTokens == 3

Label(name) == [kind |-> "label", name |-> name, len |-> 20]
Digits(n) == [kind |-> "digits", value |-> n, len |-> 3]
Lines(items) == [kind |-> "lines", items |-> items, len |-> 10 * Len(items)]
Prose(len) == [kind |-> "prose", len |-> len]
Mark == [kind |-> "mark", len |-> 1]

TextTokens ==
    { Label("MATCHING_PERCENTAGE:"), Label("STRENGTHS:"), Label("AREAS_TO_IMPROVE:"),
      Label("DETAILED_ANALYSIS:"),
      Digits(82), Digits(150),
      Lines(<<"node">>), Lines(<<"a", "b", "c", "d", "e", "f">>),
      Prose(2400), Mark }

Texts == UNION { [1 .. n -> TextTokens] : n \in 0 .. MaxTokens }

\* response.length
TextLen(text) ==
    LET RECURSIVE Sum(_)
        Sum(i) == IF i = 0 THEN 0 ELSE text[i].len + Sum(i - 1)
    IN  Sum(Len(text))

\* index of the first token after position from that satisfies the label
\* name, 0 when there is none
FirstLabel(text, name, from) ==
    LET at == { i \in (from + 1) .. Len(text) : text[i] = Label(name) }
    IN  IF at = {} THEN 0 ELSE CHOOSE i \in at : \A j \in at : i <= j

\* response.match(/MATCHING_PERCENTAGE:\s*(\d+)/i): the first place where the
\* label is directly followed by digits; parseInt of the digits, Omitted when
\* there is no match
MatchPercentage(text) ==
    LET at == { i \in 1 .. Len(text) - 1 :
                  /\ text[i] = Label("MATCHING_PERCENTAGE:")
                  /\ text[i + 1].kind = "digits" }
    IN  IF at = {} THEN Omitted
        ELSE text[(CHOOSE i \in at : \A j \in at : i <= j) + 1].value

NoMatch == [matched |-> FALSE]

\* response.match(/<label>(.*?)(?=<stop>|$)/is)[1]: the text between the
\* first label and the first stop label behind it, or the end of the text;
\* NoMatch (null) when the label does not occur
MatchSection(text, label, stop) ==
    LET first == FirstLabel(text, label, 0)
        until == IF first = 0 THEN 0 ELSE FirstLabel(text, stop, first)
    IN  IF first = 0 THEN NoMatch
        ELSE [matched |-> TRUE,
              group |-> SubSeq(text, first + 1,
                               IF until = 0 THEN Len(text) ELSE until - 1)]

\* the lines of the section that start with a bullet or an ordinal, the
\* marker stripped
RECURSIVE extractListItems(_)
extractListItems(section) ==
    IF section = <<>> THEN <<>>
    ELSE (IF Head(section).kind = "lines" THEN Head(section).items ELSE <<>>)
             \o extractListItems(Tail(section))

\* the four matches of parseAIResponse: the percentage, the items of the two
\* lists and the text detailedAnalysis is cut from (the text behind
\* DETAILED_ANALYSIS:, or the whole response)
MatchResponse(text) ==
    LET strengthsMatch == MatchSection(text, "STRENGTHS:", "AREAS_TO_IMPROVE:")
        areasMatch == MatchSection(text, "AREAS_TO_IMPROVE:", "DETAILED_ANALYSIS:")
        detailedAt == FirstLabel(text, "DETAILED_ANALYSIS:", 0)
        detailed == IF detailedAt = 0 THEN text ELSE SubSeq(text, detailedAt + 1, Len(text))
    IN  [percentage  |-> MatchPercentage(text),
         strengths   |-> IF ~strengthsMatch.matched THEN <<>>
                         ELSE extractListItems(strengthsMatch.group),
         areas       |-> IF ~areasMatch.matched THEN <<>>
                         ELSE extractListItems(areasMatch.group),
         analysis    |-> detailed,
         analysisLen |-> TextLen(detailed)]

\* this.parseAIResponse(analysis)
ParseAIResponse(text) ==
    /\ probe' = [op |-> "parseAIResponse", text |-> text,
                 narrative |-> MatchResponse(text).analysis,
                 ret |-> parseAIResponse(MatchResponse(text))]
    /\ UNCHANGED <<now, cache, stats, inv, obs, runs>>

NextParse == \E text \in Texts : ParseAIResponse(text)

SpecParse == Init /\ [][NextParse]_vars

\* the first integer behind the first MATCHING_PERCENTAGE label, Omitted when
\* the label or the integer is missing
FirstIntegerAfterLabel(text) ==
    LET label == FirstLabel(text, "MATCHING_PERCENTAGE:", 0)
        at == { i \in (label + 1) .. Len(text) : text[i].kind = "digits" }
    IN  IF label = 0 \/ at = {} THEN Omitted
        ELSE text[CHOOSE i \in at : \A j \in at : i <= j].value

NoLabel(text) == \A i \in 1 .. Len(text) : text[i].kind # "label"

\* C24 (as claimed): for every text, parseAIResponse returns a percentage in
\* 0 .. 100 that is the first integer after the MATCHING_PERCENTAGE label,
\* clamped, or 50 without one, at most 5 strengths, at most 5 areas to
\* improve and at most 2000 characters of analysis; for a text without any
\* label it returns 50, two empty lists and the first 2000 characters of the
\* text.
C24_ParseTotalAndBounded ==
    probe.op = "parseAIResponse" =>
        LET first == FirstIntegerAfterLabel(probe.text)
        IN  /\ probe.ret.matchingPercentage \in 0 .. 100
            /\ probe.ret.matchingPercentage =
                   IF first = Omitted THEN 50 ELSE Min(100, Max(0, first))
            /\ Len(probe.ret.strengths) <= 5
            /\ Len(probe.ret.areasToImprove) <= 5
            /\ probe.ret.detailedAnalysisLen <= 2000
            /\ NoLabel(probe.text) =>
                   /\ probe.ret.matchingPercentage = 50
                   /\ probe.ret.strengths = <<>>
                   /\ probe.ret.areasToImprove = <<>>
                   /\ probe.narrative = probe.text
                   /\ probe.ret.detailedAnalysisLen = Min(2000, TextLen(probe.text))

(***************************************************************************)
(* JobMatchService: the entry points that run an analysis, one request at  *)
(* a time.  probe holds the request in progress or the last response, the  *)
(* stored job matches and, for every key, the job posting whose analysis   *)
(* was last written to the cache.                                          *)
(***************************************************************************)
NoPosting == [none |-> TRUE]

NoRequest ==
    [op |-> "none", entry |-> "none", user |-> Null, job |-> NoPosting, run |-> 0,
     status |-> 0, outcome |-> Nothing, hit |-> FALSE,
     producer |-> [k \in Keys |-> NoPosting], stored |-> {}]

\* the requests so far, before the first one as well
Requests == IF probe = NoProbe THEN NoRequest ELSE probe

\* new AppError(message, statusCode) and an Error without statusCode
AppError(text, statusCode) == [text |-> text, detail |-> {}, statusCode |-> statusCode]
PlainError(thrown) == [text |-> thrown.text, detail |-> thrown.detail, statusCode |-> NoStatus]

\* error.message.includes(needle) for the errors analyzeJobMatch and the
\* entry points throw; detail is the part of the message taken from the
\* provider's message
MessageIncludes(error, needle) ==
    \/ needle \in error.detail
    \/ /\ error.text = "OpenAI API error: 429 You exceeded your current quota"
       /\ needle \in {"429", "quota"}
    \/ /\ error.text = "OpenAI API quota exceeded"
       /\ needle = "quota"
    \/ /\ error.text = "OpenAI API authentication failed"
       /\ needle = "authentication failed"

\* the catch block of analyzeFromUrl and analyzeFromManualEntry: the error
\* that leaves the entry point
MapError(error) ==
    IF MessageIncludes(error, "authentication failed") \/ MessageIncludes(error, "401")
    THEN AppError("OpenAI API authentication failed. Please check your API key configuration.", 500)
    ELSE IF \/ MessageIncludes(error, "quota")
            \/ MessageIncludes(error, "429")
            \/ MessageIncludes(error, "rate limit")
    THEN AppError("AI service is temporarily unavailable due to quota limits.", 429)
    ELSE error

\* the error that leaves the entry point when analyzeJobMatch threw: reanalyze
\* has no catch block
LeavesEntry(entry, thrown) ==
    IF entry = "reanalyze" THEN PlainError(thrown) ELSE MapError(PlainError(thrown))

\* the status of the response to a request that ended with an error: the
\* error's statusCode, 500 for an error without one
ErrorStatus(error) == IF error.statusCode = NoStatus THEN 500 ELSE error.statusCode

\* res.status(..) of the controller when the entry point returned
SuccessStatus(entry) == IF entry = "reanalyze" THEN 200 ELSE 201

\* a request may begin: none is in progress
MayRequest ==
    /\ Requests.op # "request"
    /\ CanStart("a")

\* the entry point awaits analyzeJobMatch(user, job)
Awaits(entry, user, job) ==
    [Requests EXCEPT !.op = "request", !.entry = entry, !.user = user, !.job = job,
                     !.run = runs, !.outcome = Nothing, !.hit = FALSE, !.status = 0]

\* the entry point threw error before it called analyzeJobMatch
Refuses(entry, job, error, stored) ==
    [Requests EXCEPT !.op = "response", !.entry = entry, !.user = Null, !.job = job,
                     !.run = runs, !.outcome = Threw(error), !.hit = FALSE,
                     !.status = ErrorStatus(error), !.stored = stored]

\* analyzeFromUrl(userId, jobUrl) up to the call of analyzeJobMatch; user is
\* the result of User.findById
AnalyzeFromUrl(user, jobUrl) ==
    /\ MayRequest
    /\ probe' = IF user = Null
                THEN Refuses("analyzeFromUrl", UrlJob(jobUrl),
                             MapError(AppError("User not found", 404)), Requests.stored)
                ELSE Awaits("analyzeFromUrl", user, UrlJob(jobUrl))
    /\ UNCHANGED <<now, cache, stats, inv, obs, runs>>

\* analyzeFromManualEntry(userId, jobDetails) up to the call of
\* analyzeJobMatch; an error thrown before is stored with the job details
\* (the entries that passed the validation of the route have a title and a
\* description)
AnalyzeFromManualEntry(user, jobDetails) ==
    /\ MayRequest
    /\ probe' =
         IF user = Null
         THEN Refuses("analyzeFromManualEntry", jobDetails,
                      MapError(AppError("User not found", 404)),
                      Requests.stored \cup {jobDetails})
         ELSE IF Falsy(Prop(jobDetails, "jobTitle")) \/ Falsy(Prop(jobDetails, "jobDescription"))
         THEN Refuses("analyzeFromManualEntry", jobDetails,
                      MapError(AppError("Job title and description are required", 400)),
                      Requests.stored \cup {jobDetails})
         ELSE Awaits("analyzeFromManualEntry", user, jobDetails)
    /\ UNCHANGED <<now, cache, stats, inv, obs, runs>>

\* the properties reanalyze copies from the stored job match
ReanalyzedJob(jobMatch) ==
    [jobTitle       |-> Prop(jobMatch, "jobTitle"),
     company        |-> Prop(jobMatch, "company"),
     location       |-> Prop(jobMatch, "location"),
     jobDescription |-> Prop(jobMatch, "jobDescription")]

\* reanalyze(id, userId) up to the call of analyzeJobMatch; jobMatch is the
\* result of JobMatch.findById, a job match of the user or null
Reanalyze(user, jobMatch) ==
    /\ MayRequest
    /\ jobMatch \in Requests.stored \cup {Null}
    /\ probe' = IF jobMatch = Null
                THEN Refuses("reanalyze", NoPosting, AppError("Job match not found", 404),
                             Requests.stored)
                ELSE Awaits("reanalyze", user, ReanalyzedJob(jobMatch))
    /\ UNCHANGED <<now, cache, stats, inv, obs, runs>>

\* aiService.analyzeJobMatch(user, jobDetails) called by the entry point
CallsAnalyze ==
    /\ Requests.op = "request"
    /\ Requests.run = runs
    /\ StartAnalyze("a", Requests.user, Requests.job)

\* the entry point after analyzeJobMatch returned or threw: the job match is
\* stored by analyzeFromManualEntry (with the analysis, or with the error it
\* rethrows); the response is sent
Responds ==
    LET r == inv["a"]
        entry == Requests.entry
        ok == r.outcome.kind = "returned"
        error == LeavesEntry(entry, r.outcome.error)
        rethrown == error = PlainError(r.outcome.error)
    IN  /\ Requests.op = "request"
        /\ runs = Requests.run + 1
        /\ r.pc = "done"
        /\ probe' =
             [Requests EXCEPT
                !.op = "response",
                !.outcome = IF ok THEN r.outcome ELSE Threw(error),
                !.hit = ok /\ r.calls = 0,
                !.status = IF ok THEN SuccessStatus(entry) ELSE ErrorStatus(error),
                !.producer = IF ok /\ r.calls >= 1
                             THEN [@ EXCEPT ![r.key] = Requests.job]
                             ELSE @,
                !.stored = IF entry = "analyzeFromManualEntry" /\ (ok \/ rethrown)
                           THEN @ \cup {Requests.job}
                           ELSE @]
        /\ UNCHANGED <<now, cache, stats, inv, obs, runs>>

\* the result of User.findById
FoundUsers == Profiles \cup {Null}

NextEntry ==
    \/ \E user \in FoundUsers, jobUrl \in JobUrls : AnalyzeFromUrl(user, jobUrl)
    \/ \E user \in FoundUsers, jobDetails \in ManualJobs :
          AnalyzeFromManualEntry(user, jobDetails)
    \/ \E user \in Profiles, jobMatch \in ManualJobs \cup {Null} : Reanalyze(user, jobMatch)
    \/ CallsAnalyze
    \/ \E v \in Completions : FnResolves("a", v)
    \/ \E e \in Errors : FnRejects("a", e)
    \/ WaitElapses("a")
    \/ Responds

SpecEntry == Init /\ [][NextEntry]_vars

\* the request answered last ended with an error of analyzeJobMatch of the class
EndedWithClass(class) ==
    /\ probe.op = "response"
    /\ inv["a"].caller = "analyze"
    /\ runs = probe.run + 1
    /\ inv["a"].outcome.kind = "threw"
    /\ ClassOf(inv["a"].outcome.error) = class

\* C27 (as claimed): whichever entry point ran the analysis, a QuotaExceeded
\* error is answered with status 429 and an AuthenticationFailed error with
\* status 500.
C27_QuotaAndAuthStatus ==
    /\ EndedWithClass("QuotaExceeded") => probe.status = 429
    /\ EndedWithClass("AuthenticationFailed") => probe.status = 500

\* C30 (as claimed): a response served from the cache is the analysis of the
\* job posting of the request: the entry of the key was written by an
\* analysis of the same posting.
C30_HitForSamePosting ==
    (probe.op = "response" /\ probe.hit) =>
        probe.producer[inv["a"].key] = probe.job

(***************************************************************************)
(* One caller's analyzeJobMatch invocations when every provider call is    *)
(* answered and every backoff timer fires.                                 *)
(***************************************************************************)
\* the provider answers the call in flight
ProviderAnswers(p) ==
    \/ \E v \in Completions : FnResolves(p, v)
    \/ \E e \in ProviderErrors : FnRejects(p, e)

NextTerminating ==
    \/ \E u \in Profiles, j \in Jobs : StartAnalyze("a", u, j)
    \/ ProviderAnswers("a")
    \/ WaitElapses("a")

\* each provider call and each backoff wait terminates
SpecTerminating ==
    /\ Init
    /\ [][NextTerminating]_vars
    /\ WF_vars(ProviderAnswers("a"))
    /\ WF_vars(WaitElapses("a"))

\* the messages of the errors analyzeJobMatch raises
ClassifiedTexts ==
    { "OpenAI API error: 429 You exceeded your current quota", "OpenAI API quota exceeded",
      "OpenAI API authentication failed", "OpenAI API error: Invalid request",
      "OpenAI API error", "Unable to connect to OpenAI API", "AI analysis failed" }

\* the step from r to s of an invocation is one of the state machine:
\* cache check and hit, cache check and miss with the first provider call, a
\* failed call followed by a backoff wait and the next call (at most three
\* calls), a completion parsed, cached and returned, or a provider error
\* classified and raised
MachineStep(r, s, c) ==
    \/ /\ r.pc \in {"idle", "done"}
       /\ s.pc = "done"
       /\ s.calls = 0
       /\ s.outcome.kind = "returned"
    \/ /\ r.pc \in {"idle", "done"}
       /\ s.pc = "inflight"
       /\ s.calls = 1
    \/ /\ r.pc = "inflight"
       /\ s.pc = "waiting"
       /\ s.calls = r.calls
       /\ s.calls < 3
    \/ /\ r.pc = "waiting"
       /\ s.pc = "inflight"
       /\ s.calls = r.calls + 1
       /\ s.calls <= 3
    \/ /\ r.pc = "inflight"
       /\ s.pc = "done"
       /\ s.calls = r.calls
       /\ s.outcome.kind = "returned"
       /\ c[s.key] # NoEntry
       /\ c[s.key].data = s.outcome.value
    \/ /\ r.pc = "inflight"
       /\ s.pc = "done"
       /\ s.calls = r.calls
       /\ s.outcome.kind = "threw"
       /\ s.outcome.error.text \in ClassifiedTexts

\* C28: every step of an invocation is a step of the state machine, and an
\* invocation that called the provider ends, with a result or a classified
\* error, after at most three provider calls.
C28_MachineAndTermination ==
    /\ [][ inv'["a"] # inv["a"] => MachineStep(inv["a"], inv'["a"], cache') ]_vars
    /\ (inv["a"].pc \in {"inflight", "waiting"}) ~> (inv["a"].pc = "done")

\* an invocation ended with a classified error after three provider calls and
\* two waits, after an earlier invocation had returned a result
C28_Witness ==
    /\ runs = 2
    /\ inv["a"].pc = "done"
    /\ inv["a"].calls = 3
    /\ inv["a"].waits = 2
    /\ inv["a"].outcome.kind = "threw"
    /\ inv["a"].outcome.error.text = "AI analysis failed"
    /\ stats.successfulCalls = 1

(***************************************************************************)
(* Concurrent analyzeJobMatch invocations while the monitor is read and    *)
(* reset.                                                                  *)
(***************************************************************************)
NextOperated ==
    \/ \E p \in Procs :
          \/ \E u \in Profiles, j \in Jobs : StartAnalyze(p, u, j)
          \/ \E v \in Completions : FnResolves(p, v)
          \/ \E e \in ProviderErrors : FnRejects(p, e)
          \/ WaitElapses(p)
    \/ GetStats
    \/ GetHealth
    \/ Reset

SpecOperated == Init /\ [][NextOperated]_vars

\* C29 (as claimed): in every reachable state, a reset while invocations are
\* in flight included, successfulCalls + failedCalls <= totalCalls,
\* quotaErrors <= failedCalls, and the error log has min(failedCalls, 50)
\* entries, failedCalls being the failures since the last reset.
C29_MonitorConsistent ==
    /\ stats.successfulCalls + stats.failedCalls <= stats.totalCalls
    /\ stats.quotaErrors <= stats.failedCalls
    /\ Len(stats.errors) = Min(stats.failedCalls, maxErrors)
\* C36 (as claimed): getHealth reports 'healthy' with no recommendation when
\* totalCalls is 0, and in every state the status is 'healthy' exactly when
\* the list of recommendations is empty.
C36_HealthyIffNoRecommendation ==
    /\ stats.totalCalls = 0 =>
           /\ getHealth(stats).status = "healthy"
           /\ getHealth(stats).recommendations = <<>>
    /\ getHealth(stats).status = "healthy" <=> getHealth(stats).recommendations = <<>>

====
